---------------------------- MODULE Spec2Model ----------------------------
(***************************************************************************)
(* Character-mention scanning and interaction-graph engine of BrutWrite    *)
(* (src-tauri/src/intelligence): the pattern scanner, the word indexer,    *)
(* the two caches, the coordinator and the graph builder.                  *)
(*                                                                         *)
(* Texts are sequences of one-character strings (ASCII only, so a byte     *)
(* offset is a character offset).  Offsets and indices are 0-based as in   *)
(* the source; TLA+ sequences are 1-based, so text[o + 1] is the character *)
(* at offset o.                                                            *)
(***************************************************************************)
EXTENDS Integers, Sequences, FiniteSets, TLC

VARIABLES
    metadata,       \* project id -> ProjectMetadata: characters and manifest chapters
    files,          \* path -> the chapter file on disk
    scanner_cache,  \* IntelligenceCache: project id -> (hash, scanner)
    content_cache,  \* ChapterContentCache: chapter id -> (len, modified, hash, mentions)
    calls,          \* the analyze_project calls made on the service, in order
    edits,          \* number of changes made to the project and its files so far
    scanRun,        \* one run of CharacterScanner::try_new followed by scan
    graphRun,       \* one run of build_character_graph_cached on scanned chapters
    numRun          \* one evaluation of the builder's valence or proximity bonus

vars == <<metadata, files, scanner_cache, content_cache, calls, edits, scanRun, graphRun, numRun>>

None == "none"

-----------------------------------------------------------------------------
(* Sequence helpers.                                                       *)

Range(s) == {s[i] : i \in DOMAIN s}

Min(a, b) == IF a < b THEN a ELSE b

Max(a, b) == IF a > b THEN a ELSE b

RECURSIVE Flatten(_)
Flatten(ss) == IF ss = <<>> THEN <<>> ELSE Head(ss) \o Flatten(Tail(ss))

RECURSIVE SeqsUpTo(_, _)
SeqsUpTo(S, n) ==
    IF n = 0 THEN {<<>>}
    ELSE LET shorter == SeqsUpTo(S, n - 1)
         IN  shorter \cup {Append(s, x) : s \in shorter, x \in S}

-----------------------------------------------------------------------------
(* Characters of a text: char::is_whitespace, char::is_alphanumeric and    *)
(* case folding, on the ASCII range and on the letter E with acute accent. *)
(* A text is its sequence of UTF-8 bytes: an ASCII character is one        *)
(* element, and the accented letter is the two bytes C3 89 (upper case) or *)
(* C3 A9 (lower case).                                                     *)

UpperLetters ==
    <<"A","B","C","D","E","F","G","H","I","J","K","L","M",
      "N","O","P","Q","R","S","T","U","V","W","X","Y","Z">>

LowerLetters ==
    <<"a","b","c","d","e","f","g","h","i","j","k","l","m",
      "n","o","p","q","r","s","t","u","v","w","x","y","z">>

Digits == {"0","1","2","3","4","5","6","7","8","9"}

IsWhitespace(c) == c \in {" ", "\n", "\t"}

\* The bytes of the accented letter: the lead byte and the second byte of
\* its upper-case and of its lower-case form.
AccentLead == "xC3"

AccentUpper == "x89"

AccentLower == "xA9"

\* char::is_alphanumeric of the character a byte belongs to; the bytes of
\* the accented letter only occur as that letter.
IsAlphanumeric(c) ==
    c \in Range(UpperLetters) \cup Range(LowerLetters) \cup Digits
          \cup {AccentLead, AccentUpper, AccentLower}

\* The folding of the ASCII letters, as ascii_case_insensitive does it.
Lower(c) ==
    IF c \in Range(UpperLetters)
    THEN LowerLetters[CHOOSE i \in DOMAIN UpperLetters : UpperLetters[i] = c]
    ELSE c

\* str::to_lowercase: Unicode lower-casing, which also maps the upper-case
\* accented letter (C3 89) to its lower-case form (C3 A9).
ToLowercase(s) ==
    [i \in DOMAIN s |->
       IF i > 1 /\ s[i - 1] = AccentLead /\ s[i] = AccentUpper THEN AccentLower
       ELSE Lower(s[i])]

\* str::trim: what is left once leading and trailing whitespace is removed.
RECURSIVE TrimStart(_)
TrimStart(s) == IF s # <<>> /\ IsWhitespace(Head(s)) THEN TrimStart(Tail(s)) ELSE s

RECURSIVE TrimEnd(_)
TrimEnd(s) ==
    IF s # <<>> /\ IsWhitespace(s[Len(s)]) THEN TrimEnd(SubSeq(s, 1, Len(s) - 1)) ELSE s

Trim(s) == TrimEnd(TrimStart(s))

-----------------------------------------------------------------------------
(* Pattern scanner (intelligence/scanner.rs).                              *)

MAX_NAME_LEN == 256

\* uuid.to_string(): the textual form of a character id.  An id is a token
\* ("u1", "u2", ...) that is no character of a name, and its textual form is
\* that one token.
IdStr(id) == <<id>>

SafeName(name) == ToLowercase(SubSeq(name, 1, Min(Len(name), MAX_NAME_LEN)))

DataIdPrefix == <<"d","a","t","a","-","i","d","=">>

Pattern(pat, i, boundary) ==
    [pat |-> pat, char_idx |-> i, requires_boundary |-> boundary]

RECURSIVE AliasPatterns(_, _)
AliasPatterns(aliases, i) ==
    IF aliases = <<>> THEN <<>>
    ELSE (IF Trim(Head(aliases)) = <<>> THEN <<>>
          ELSE <<Pattern(SafeName(Head(aliases)), i, TRUE)>>)
         \o AliasPatterns(Tail(aliases), i)

\* The patterns one character contributes, in push order; i is its 0-based
\* position in the roster.
CharacterPatterns(c, i) ==
    <<Pattern(SafeName(c.name), i, TRUE)>>
    \o AliasPatterns(c.aliases, i)
    \o <<Pattern(<<"@">> \o SafeName(c.name), i, FALSE),
         Pattern(DataIdPrefix \o <<"\"">> \o IdStr(c.id) \o <<"\"">>, i, FALSE),
         Pattern(DataIdPrefix \o <<"'">> \o IdStr(c.id) \o <<"'">>, i, FALSE)>>

RECURSIVE RosterPatterns(_, _)
RosterPatterns(characters, i) ==
    IF i >= Len(characters) THEN <<>>
    ELSE CharacterPatterns(characters[i + 1], i) \o RosterPatterns(characters, i + 1)

\* A build without the test for an empty pattern list.
TryNewAcceptingEmpty(characters) ==
    [ok |-> TRUE,
     scanner |-> [patterns |-> RosterPatterns(characters, 0),
                  ids |-> [i \in DOMAIN characters |-> characters[i].id]]]

TryNew(characters) ==
    LET patterns == RosterPatterns(characters, 0)
    IN  IF patterns = <<>>
        THEN [ok |-> FALSE, err |-> "No characters to analyze"]
        ELSE [ok |-> TRUE,
              scanner |-> [patterns |-> patterns,
                           ids |-> [i \in DOMAIN characters |-> characters[i].id]]]

\* Pattern p occurs in text at 0-based offset s (ascii_case_insensitive).
MatchesAt(text, p, s) ==
    /\ s + Len(p) <= Len(text)
    /\ \A i \in 1..Len(p) : Lower(text[s + i]) = Lower(p[i])

\* MatchKind::LeftmostFirst in place of LeftmostLongest: at the leftmost
\* start, the earliest-added pattern wins whatever its length.
FindNextLeftmostFirst(text, patterns, at) ==
    LET starts == {s \in at..Len(text) :
                     \E k \in DOMAIN patterns : MatchesAt(text, patterns[k].pat, s)}
    IN  IF starts = {} THEN [found |-> FALSE]
        ELSE LET start == CHOOSE s \in starts : \A t \in starts : s <= t
                 here  == {k \in DOMAIN patterns : MatchesAt(text, patterns[k].pat, start)}
                 first == CHOOSE k \in here : \A j \in here : k <= j
             IN  [found |-> TRUE, pattern |-> first, start |-> start,
                  end |-> start + Len(patterns[first].pat)]

\* MatchKind::LeftmostLongest: the leftmost start at or after `at`; among the
\* patterns matching there the longest, and the earliest-added on a tie.
FindNext(text, patterns, at) ==
    LET starts == {s \in at..Len(text) :
                     \E k \in DOMAIN patterns : MatchesAt(text, patterns[k].pat, s)}
    IN  IF starts = {} THEN [found |-> FALSE]
        ELSE LET start == CHOOSE s \in starts : \A t \in starts : s <= t
                 here  == {k \in DOMAIN patterns : MatchesAt(text, patterns[k].pat, start)}
                 best  == CHOOSE k \in here :
                            \A j \in here :
                               \/ Len(patterns[k].pat) > Len(patterns[j].pat)
                               \/ Len(patterns[k].pat) = Len(patterns[j].pat) /\ k <= j
             IN  [found |-> TRUE, pattern |-> best, start |-> start,
                  end |-> start + Len(patterns[best].pat)]

IsWordChar(c) == IsAlphanumeric(c) \/ c = "_"

\* A boundary test that looks at the character before the match only.
IsWordBoundaryBeforeOnly(text, start, end) ==
    ~(start > 0 /\ IsWordChar(text[start]))

is_word_boundary(text, start, end) ==
    /\ ~(start > 0 /\ IsWordChar(text[start]))
    /\ ~(end < Len(text) /\ IsWordChar(text[end + 1]))

\* The body of the loop over find_iter: is the match kept as a mention?
AcceptMatch(scanner, text, m) ==
    ~(scanner.patterns[m.pattern].requires_boundary
      /\ ~is_word_boundary(text, m.start, m.end))

\* find_iter from offset `at`: the matches the loop keeps, in match order.
\* A match is not empty (no pattern is), so the search resumes at its end.
RECURSIVE ScanMatches(_, _, _)
ScanMatches(scanner, text, at) ==
    LET m == FindNext(text, scanner.patterns, at)
    IN  IF ~m.found THEN <<>>
        ELSE (IF AcceptMatch(scanner, text, m) THEN <<m>> ELSE <<>>)
             \o ScanMatches(scanner, text, m.end)

MentionOf(scanner, m) ==
    [offset |-> m.start, id |-> scanner.ids[scanner.patterns[m.pattern].char_idx + 1]]

Scan(scanner, text) ==
    LET ms == ScanMatches(scanner, text, 0)
    IN  [i \in DOMAIN ms |-> MentionOf(scanner, ms[i])]

-----------------------------------------------------------------------------
(* Word indexer (models/utils.rs).                                         *)

\* WordIndexer::new: the offsets at which a maximal run of non-whitespace
\* starts, ascending.
RECURSIVE WordStartsFrom(_, _, _)
WordStartsFrom(text, idx, in_word) ==
    IF idx >= Len(text) THEN <<>>
    ELSE IF IsWhitespace(text[idx + 1]) THEN WordStartsFrom(text, idx + 1, FALSE)
    ELSE IF ~in_word THEN <<idx>> \o WordStartsFrom(text, idx + 1, TRUE)
    ELSE WordStartsFrom(text, idx + 1, TRUE)

WordIndexerNew(text) == WordStartsFrom(text, 0, FALSE)

\* slice::binary_search on the strictly ascending word_starts: Ok(idx) when
\* char_pos is a word start, Err(insertion point) otherwise.
BinarySearch(word_starts, char_pos) ==
    IF \E i \in DOMAIN word_starts : word_starts[i] = char_pos
    THEN [found |-> TRUE,
          idx |-> (CHOOSE i \in DOMAIN word_starts : word_starts[i] = char_pos) - 1]
    ELSE [found |-> FALSE,
          idx |-> Cardinality({i \in DOMAIN word_starts : word_starts[i] < char_pos})]

\* A lookup that takes the insertion point itself for an offset inside a word.
GetWordIndexOfInsertionPoint(word_starts, char_pos) ==
    IF word_starts = <<>> THEN 0
    ELSE BinarySearch(word_starts, char_pos).idx

get_word_index(word_starts, char_pos) ==
    IF word_starts = <<>> THEN 0
    ELSE LET r == BinarySearch(word_starts, char_pos)
         IN  IF r.found THEN r.idx ELSE Max(r.idx - 1, 0)

-----------------------------------------------------------------------------
(* Option values, maps (HashMap) and iteration orders.                     *)

NoneOpt == [some |-> FALSE]

Some(v) == [some |-> TRUE, val |-> v]

EmptyMap == [k \in {} |-> None]

MapPut(f, k, v) == [x \in DOMAIN f \cup {k} |-> IF x = k THEN v ELSE f[x]]

MapGetOr(f, k, d) == IF k \in DOMAIN f THEN f[k] ELSE d

\* The orders in which a HashMap with key set S can be iterated.
RECURSIVE Orders(_)
Orders(S) ==
    IF S = {} THEN {<<>>}
    ELSE UNION {{<<x>> \o t : t \in Orders(S \ {x})} : x \in S}

-----------------------------------------------------------------------------
(* Union-find (models/utils.rs).  Elements are 0..n-1; parent and rank are *)
(* sequences, parent[x + 1] being the parent of x.  find's path            *)
(* compression changes no root and no rank, so find is modelled as the     *)
(* root lookup it performs.                                                *)

UnionFindNew(n) == [parent |-> [i \in 1..n |-> i - 1], rank |-> [i \in 1..n |-> 0]]

RECURSIVE Find(_, _)
Find(uf, x) == IF uf.parent[x + 1] # x THEN Find(uf, uf.parent[x + 1]) ELSE x

\* A union that hangs x itself, not its root, under y.
UnionWithoutFind(uf, x, y) == [uf EXCEPT !.parent[x + 1] = y]

Union(uf, x, y) ==
    LET px == Find(uf, x)
        py == Find(uf, y)
    IN  IF px = py THEN uf
        ELSE IF uf.rank[px + 1] < uf.rank[py + 1]
             THEN [uf EXCEPT !.parent[px + 1] = py]
        ELSE IF uf.rank[px + 1] > uf.rank[py + 1]
             THEN [uf EXCEPT !.parent[py + 1] = px]
        ELSE [uf EXCEPT !.parent[py + 1] = px, !.rank[px + 1] = @ + 1]

\* component_sizes: root -> number of elements whose root it is.
ComponentSizes(uf) ==
    LET n     == Len(uf.parent)
        roots == {Find(uf, i) : i \in 0..(n - 1)}
    IN  [r \in roots |-> Cardinality({i \in 0..(n - 1) : Find(uf, i) = r})]

-----------------------------------------------------------------------------
(* f32 arithmetic (IEEE 754 binary32, round to nearest, ties to even), on  *)
(* the values the builder computes: zero, and the positive normal numbers  *)
(* m * 2^e with 2^23 <= m < 2^24.  No weight, ratio or valence of the      *)
(* builder is negative, subnormal or infinite.                             *)

RECURSIVE Pow2(_)
Pow2(n) == IF n = 0 THEN 1 ELSE 2 * Pow2(n - 1)

\* The powers of two the roundings use.
Two12 == Pow2(12)

Two23 == Pow2(23)

Two24 == Pow2(24)

Two27 == Pow2(27)

F32(m, e) == [m |-> m, e |-> e]

F32Zero == F32(0, 0)

\* q + twice_rem / (2 * den) rounded to an integer, ties to even.
RoundNearestEven(q, twice_rem, den) ==
    IF twice_rem > den \/ (twice_rem = den /\ q % 2 = 1) THEN q + 1 ELSE q

\* A rounded significand that reached 2^24 is 2^23 one exponent higher.
F32Carry(m, e) == IF m = Two24 THEN F32(Two23, e + 1) ELSE F32(m, e)

RECURSIVE F32Normalize(_, _)
F32Normalize(m, e) ==
    IF m = 0 THEN F32Zero
    ELSE IF m < Two23 THEN F32Normalize(2 * m, e - 1)
    ELSE F32(m, e)

\* `n as f32` for 0 <= n < 2^24: exact.
F32FromInt(n) == F32Normalize(n, 0)

RECURSIVE OddPart(_)
OddPart(m) == IF m % 2 = 0 THEN OddPart(m \div 2) ELSE m

RECURSIVE TrailingZeros(_)
TrailingZeros(m) == IF m % 2 = 0 THEN 1 + TrailingZeros(m \div 2) ELSE 0

\* The least k with (n * 2^k) div d >= 2^23.
RECURSIVE QuotientShift(_, _)
QuotientShift(n, d) == IF n \div d >= Two23 THEN 0 ELSE 1 + QuotientShift(2 * n, d)

\* a / b, for b an integer below 2^7 times a power of two (the divisors of
\* the builder are word distances and character counts).
F32Div(a, b) ==
    IF a.m = 0 THEN F32Zero
    ELSE LET na == OddPart(a.m)
             nb == OddPart(b.m)
             k  == QuotientShift(na, nb)
             n  == na * Pow2(k)
         IN  F32Carry(RoundNearestEven(n \div nb, 2 * (n % nb), nb),
                      (a.e + TrailingZeros(a.m)) - (b.e + TrailingZeros(b.m)) - k)

\* a * b: the 48-bit product of the significands as hi * 2^24 + lo, from
\* their 12-bit halves, then rounded to 24 bits.
F32Mul(a, b) ==
    IF a.m = 0 \/ b.m = 0 THEN F32Zero
    ELSE LET ah  == a.m \div Two12
             al  == a.m % Two12
             bh  == b.m \div Two12
             bl  == b.m % Two12
             mid == ah * bl + al * bh
             low == (mid % Two12) * Two12 + al * bl
             hi  == ah * bh + (mid \div Two12) + (low \div Two24)
             lo  == low % Two24
         IN  IF hi >= Two23
             THEN F32Carry(RoundNearestEven(hi, 2 * lo, Two24), a.e + b.e + 24)
             ELSE F32Carry(RoundNearestEven(2 * hi + (lo \div Two23),
                                            2 * (lo % Two23), Two23),
                           a.e + b.e + 23)

\* a + b: the smaller operand is aligned to the larger with three extra
\* bits, the last one sticky, and the sum rounded to 24 bits.
F32Add(a, b) ==
    IF a.m = 0 THEN b
    ELSE IF b.m = 0 THEN a
    ELSE LET big    == IF a.e >= b.e THEN a ELSE b
             small  == IF a.e >= b.e THEN b ELSE a
             shift  == big.e - small.e
             kept   == IF shift > 27 THEN 0 ELSE (small.m * 8) \div Pow2(shift)
             sticky == IF shift > 27 \/ (small.m * 8) % Pow2(shift) # 0 THEN 1 ELSE 0
             sum    == big.m * 8 + kept + (IF kept % 2 = 0 THEN sticky ELSE 0)
         IN  IF sum >= Two27
             THEN F32Carry(RoundNearestEven(sum \div 16, 2 * (sum % 16), 16), big.e + 1)
             ELSE F32Carry(RoundNearestEven(sum \div 8, 2 * (sum % 8), 8), big.e)

\* a < b
F32Lt(a, b) ==
    IF a.m = 0 THEN b.m > 0
    ELSE IF b.m = 0 THEN FALSE
    ELSE a.e < b.e \/ (a.e = b.e /\ a.m < b.m)

F32One == F32FromInt(1)

-----------------------------------------------------------------------------
(* Graph builder (intelligence/graph.rs).                                  *)

\* GraphWeights::default(): 2.0, 1.8, 1.5, 1.0 and 0.1 as f32.
GraphWeightsDefault ==
    [protagonist |-> F32FromInt(2), antagonist |-> F32(15099494, -23),
     secondary |-> F32(12582912, -23), extra |-> F32One,
     base_proximity_bonus |-> F32(13421773, -27)]

\* A match that hands the antagonist the secondary weight and the secondary
\* character the antagonist weight.
RoleWeightSwapped(role, weights) ==
    CASE role = "Protagonist" -> weights.protagonist
      [] role = "Antagonist"  -> weights.secondary
      [] role = "Secondary"   -> weights.antagonist
      [] role = "Extra"       -> weights.extra

role_weight(role, weights) ==
    CASE role = "Protagonist" -> weights.protagonist
      [] role = "Antagonist"  -> weights.antagonist
      [] role = "Secondary"   -> weights.secondary
      [] role = "Extra"       -> weights.extra

\* A bonus that is cut off at distance 0 only, not at the window.
ProximityBonusUnbounded(word_distance, proximity_window, base_bonus) ==
    IF word_distance = 0
    THEN F32Zero
    ELSE F32Mul(base_bonus, F32Div(F32FromInt(proximity_window), F32FromInt(word_distance)))

proximity_bonus(word_distance, proximity_window, base_bonus) ==
    IF word_distance = 0 \/ word_distance > proximity_window
    THEN F32Zero
    ELSE F32Mul(base_bonus, F32Div(F32FromInt(proximity_window), F32FromInt(word_distance)))

\* f32::ln of 1.0 .. 12.0: the natural logarithm rounded to f32.
LnF32 ==
    <<F32Zero, F32(11629080, -24), F32(9215828, -23), F32(11629080, -23),
      F32(13500944, -23), F32(15030368, -23), F32(16323477, -23), F32(8721810, -22),
      F32(9215828, -22), F32(9657742, -22), F32(10057502, -22), F32(10422454, -22)>>

\* (1.0 + count as f32) * role_weight(role, weights): the logarithm left out.
ValenceWithoutLn(count, role, weights) ==
    F32Mul(F32FromInt(1 + count), role_weight(role, weights))

\* (1.0 + count as f32).ln() * role_weight(role, weights)
Valence(count, role, weights) == F32Mul(LnF32[1 + count], role_weight(role, weights))

EmptyGraphPayload ==
    [nodes |-> <<>>, edges |-> <<>>,
     metrics |-> [network_density |-> F32Zero, connected_components |-> 0,
                  largest_component_size |-> 0, isolation_ratio |-> F32Zero]]

\* char_id_to_idx: collected in roster order, so the last character carrying
\* an id owns it.  0-based.
CharIdToIdx(characters, id) ==
    LET hits == {i \in DOMAIN characters : characters[i].id = id}
    IN  IF hits = {} THEN NoneOpt
        ELSE Some((CHOOSE i \in hits : \A j \in hits : j <= i) - 1)

\* A tally that records the location of every mention over the one before.
RECURSIVE TallyMentionsKeepingLast(_, _, _, _, _, _)
TallyMentionsKeepingLast(st, characters, chapter_id, word_starts, mentions, k) ==
    IF k > Len(mentions) THEN st
    ELSE LET m   == mentions[k]
             idx == CharIdToIdx(characters, m.id)
         IN  IF ~idx.some
             THEN TallyMentionsKeepingLast(st, characters, chapter_id, word_starts, mentions, k + 1)
             ELSE TallyMentionsKeepingLast(
                    [st EXCEPT
                       !.mention_counts[idx.val + 1] = @ + 1,
                       !.first_mentions[idx.val + 1] =
                           Some([chapter_id |-> chapter_id, char_offset |-> m.offset]),
                       !.linear_mentions =
                           Append(@, [char_offset |-> m.offset,
                                      word_idx |-> get_word_index(word_starts, m.offset),
                                      idx |-> idx.val])],
                    characters, chapter_id, word_starts, mentions, k + 1)

\* The loop over one chapter's mentions (graph.rs:119-133).
RECURSIVE TallyMentions(_, _, _, _, _, _)
TallyMentions(st, characters, chapter_id, word_starts, mentions, k) ==
    IF k > Len(mentions) THEN st
    ELSE LET m   == mentions[k]
             idx == CharIdToIdx(characters, m.id)
         IN  IF ~idx.some
             THEN TallyMentions(st, characters, chapter_id, word_starts, mentions, k + 1)
             ELSE TallyMentions(
                    [st EXCEPT
                       !.mention_counts[idx.val + 1] = @ + 1,
                       !.first_mentions[idx.val + 1] =
                           IF @.some THEN @
                           ELSE Some([chapter_id |-> chapter_id, char_offset |-> m.offset]),
                       !.linear_mentions =
                           Append(@, [char_offset |-> m.offset,
                                      word_idx |-> get_word_index(word_starts, m.offset),
                                      idx |-> idx.val])],
                    characters, chapter_id, word_starts, mentions, k + 1)

\* sort_by_key(|k| k.1): stable, ascending word index.
RECURSIVE InsertByWordIdx(_, _)
InsertByWordIdx(sorted, x) ==
    IF sorted = <<>> THEN <<x>>
    ELSE IF sorted[Len(sorted)].word_idx <= x.word_idx THEN Append(sorted, x)
    ELSE Append(InsertByWordIdx(SubSeq(sorted, 1, Len(sorted) - 1), x), sorted[Len(sorted)])

RECURSIVE SortByWordIdx(_, _)
SortByWordIdx(linear, k) ==
    IF k = 0 THEN <<>>
    ELSE InsertByWordIdx(SortByWordIdx(linear, k - 1), linear[k])

\* An accumulation that adds the weight and records no interaction kind.
AddInteractionWithoutKind(st, idx_a, idx_b, dist, proximity_window, weights) ==
    IF idx_a = idx_b THEN st
    ELSE LET key   == <<Min(idx_a, idx_b), Max(idx_a, idx_b)>>
             bonus == proximity_bonus(dist, proximity_window, weights.base_proximity_bonus)
         IN  [st EXCEPT
                !.weight_matrix = MapPut(@, key, F32Add(MapGetOr(@, key, F32Zero), bonus))]

\* What one pair of mentions within the window adds (graph.rs:155-169).
AddInteraction(st, idx_a, idx_b, dist, proximity_window, weights) ==
    IF idx_a = idx_b THEN st
    ELSE LET key   == <<Min(idx_a, idx_b), Max(idx_a, idx_b)>>
             bonus == proximity_bonus(dist, proximity_window, weights.base_proximity_bonus)
         IN  [st EXCEPT
                !.weight_matrix = MapPut(@, key, F32Add(MapGetOr(@, key, F32Zero), bonus)),
                !.type_matrix = MapPut(@, key, MapGetOr(@, key, "CoPresence"))]

\* A look-ahead that stops one word early: at a distance equal to the window.
RECURSIVE LookAheadBreakingEarly(_, _, _, _, _, _)
LookAheadBreakingEarly(st, linear, i, j, proximity_window, weights) ==
    IF j > Len(linear) THEN st
    ELSE LET dist == Max(linear[j].word_idx - linear[i].word_idx, 0)
         IN  IF dist >= proximity_window THEN st
             ELSE LookAheadBreakingEarly(
                    AddInteraction(st, linear[i].idx, linear[j].idx, dist,
                                   proximity_window, weights),
                    linear, i, j + 1, proximity_window, weights)

\* The look-ahead from mention i over mentions j, j+1, ... (graph.rs:146-170).
RECURSIVE LookAhead(_, _, _, _, _, _)
LookAhead(st, linear, i, j, proximity_window, weights) ==
    IF j > Len(linear) THEN st
    ELSE LET dist == Max(linear[j].word_idx - linear[i].word_idx, 0)
         IN  IF dist > proximity_window THEN st
             ELSE LookAhead(
                    AddInteraction(st, linear[i].idx, linear[j].idx, dist,
                                   proximity_window, weights),
                    linear, i, j + 1, proximity_window, weights)

RECURSIVE SlidingWindow(_, _, _, _, _)
SlidingWindow(st, linear, i, proximity_window, weights) ==
    IF i > Len(linear) THEN st
    ELSE SlidingWindow(LookAhead(st, linear, i, i + 1, proximity_window, weights),
                       linear, i + 1, proximity_window, weights)

\* A loop body that starts every chapter from zeroed mention counts.
ProcessChapterResettingCounts(st, characters, chapter_contents, chapter_id, mentions, proximity_window, weights) ==
    IF mentions = <<>> THEN st
    ELSE IF chapter_id \notin DOMAIN chapter_contents
    THEN [st EXCEPT !.error = Some(<<"Content missing for analyzed chapter", chapter_id>>)]
    ELSE LET word_starts == WordIndexerNew(chapter_contents[chapter_id])
             tallied == TallyMentions(
                          [st EXCEPT !.linear_mentions = <<>>,
                                     !.mention_counts = [i \in DOMAIN @ |-> 0]],
                          characters, chapter_id, word_starts, mentions, 1)
             linear  == SortByWordIdx(tallied.linear_mentions,
                                      Len(tallied.linear_mentions))
         IN  SlidingWindow(tallied, linear, 1, proximity_window, weights)

\* One iteration of the loop over chapter_mentions (graph.rs:102-172).
ProcessChapter(st, characters, chapter_contents, chapter_id, mentions, proximity_window, weights) ==
    IF mentions = <<>> THEN st
    ELSE IF chapter_id \notin DOMAIN chapter_contents
    THEN [st EXCEPT !.error = Some(<<"Content missing for analyzed chapter", chapter_id>>)]
    ELSE LET word_starts == WordIndexerNew(chapter_contents[chapter_id])
             tallied == TallyMentions([st EXCEPT !.linear_mentions = <<>>], characters,
                                      chapter_id, word_starts, mentions, 1)
             linear  == SortByWordIdx(tallied.linear_mentions,
                                      Len(tallied.linear_mentions))
         IN  SlidingWindow(tallied, linear, 1, proximity_window, weights)

\* The loop over chapter_mentions in iteration order chapter_order; the `?`
\* leaves the function at the first chapter without content.
RECURSIVE ProcessChapters(_, _, _, _, _, _, _)
ProcessChapters(st, characters, chapter_contents, chapter_mentions, chapter_order, proximity_window, weights) ==
    IF chapter_order = <<>> \/ st.error.some THEN st
    ELSE ProcessChapters(
           ProcessChapter(st, characters, chapter_contents, Head(chapter_order),
                          chapter_mentions[Head(chapter_order)], proximity_window, weights),
           characters, chapter_contents, chapter_mentions, Tail(chapter_order),
           proximity_window, weights)

GraphAccumulatorNew(n_chars) ==
    [mention_counts |-> [i \in 1..n_chars |-> 0],
     first_mentions |-> [i \in 1..n_chars |-> NoneOpt],
     weight_matrix |-> EmptyMap,
     type_matrix |-> EmptyMap,
     linear_mentions |-> <<>>,
     error |-> NoneOpt]

BuildNodes(characters, st, weights) ==
    [i \in DOMAIN characters |->
       [id |-> characters[i].id,
        label |-> characters[i].name,
        valence |-> Valence(st.mention_counts[i], characters[i].role, weights),
        mention_count |-> st.mention_counts[i],
        is_mapped |-> st.mention_counts[i] > 0,
        first_mention |-> st.first_mentions[i]]]

\* Edges whose source is the later character of the pair.
RECURSIVE BuildEdgesTargetFirst(_, _, _, _, _)
BuildEdgesTargetFirst(es, characters, st, prune_threshold, pair_order) ==
    IF pair_order = <<>> THEN es
    ELSE LET key    == Head(pair_order)
             weight == st.weight_matrix[key]
         IN  IF F32Lt(weight, prune_threshold)
             THEN BuildEdgesTargetFirst(es, characters, st, prune_threshold, Tail(pair_order))
             ELSE BuildEdgesTargetFirst(
                    [uf |-> Union(es.uf, key[1], key[2]),
                     connected_indices |-> es.connected_indices \cup {key[1], key[2]},
                     edges |-> Append(es.edges,
                                 [source |-> characters[key[2] + 1].id,
                                  target |-> characters[key[1] + 1].id,
                                  weight |-> weight,
                                  interaction_type |->
                                      MapGetOr(st.type_matrix, key, "Reference")])],
                    characters, st, prune_threshold, Tail(pair_order))

\* A loop that also drops the pairs whose weight equals the threshold.
RECURSIVE BuildEdgesDroppingEqual(_, _, _, _, _)
BuildEdgesDroppingEqual(es, characters, st, prune_threshold, pair_order) ==
    IF pair_order = <<>> THEN es
    ELSE LET key    == Head(pair_order)
             weight == st.weight_matrix[key]
         IN  IF ~F32Lt(prune_threshold, weight)
             THEN BuildEdgesDroppingEqual(es, characters, st, prune_threshold,
                                          Tail(pair_order))
             ELSE BuildEdgesDroppingEqual(
                    [uf |-> Union(es.uf, key[1], key[2]),
                     connected_indices |-> es.connected_indices \cup {key[1], key[2]},
                     edges |-> Append(es.edges,
                                 [source |-> characters[key[1] + 1].id,
                                  target |-> characters[key[2] + 1].id,
                                  weight |-> weight,
                                  interaction_type |->
                                      MapGetOr(st.type_matrix, key, "Reference")])],
                    characters, st, prune_threshold, Tail(pair_order))

\* A loop that records only the first character of a kept pair as connected.
RECURSIVE BuildEdgesMarkingFirst(_, _, _, _, _)
BuildEdgesMarkingFirst(es, characters, st, prune_threshold, pair_order) ==
    IF pair_order = <<>> THEN es
    ELSE LET key    == Head(pair_order)
             weight == st.weight_matrix[key]
         IN  IF F32Lt(weight, prune_threshold)
             THEN BuildEdgesMarkingFirst(es, characters, st, prune_threshold,
                                         Tail(pair_order))
             ELSE BuildEdgesMarkingFirst(
                    [uf |-> Union(es.uf, key[1], key[2]),
                     connected_indices |-> es.connected_indices \cup {key[1]},
                     edges |-> Append(es.edges,
                                 [source |-> characters[key[1] + 1].id,
                                  target |-> characters[key[2] + 1].id,
                                  weight |-> weight,
                                  interaction_type |->
                                      MapGetOr(st.type_matrix, key, "Reference")])],
                    characters, st, prune_threshold, Tail(pair_order))

\* The loop over weight_matrix in iteration order pair_order (graph.rs:197-221).
RECURSIVE BuildEdges(_, _, _, _, _)
BuildEdges(es, characters, st, prune_threshold, pair_order) ==
    IF pair_order = <<>> THEN es
    ELSE LET key    == Head(pair_order)
             weight == st.weight_matrix[key]
         IN  IF F32Lt(weight, prune_threshold)
             THEN BuildEdges(es, characters, st, prune_threshold, Tail(pair_order))
             ELSE BuildEdges(
                    [uf |-> Union(es.uf, key[1], key[2]),
                     connected_indices |-> es.connected_indices \cup {key[1], key[2]},
                     edges |-> Append(es.edges,
                                 [source |-> characters[key[1] + 1].id,
                                  target |-> characters[key[2] + 1].id,
                                  weight |-> weight,
                                  interaction_type |->
                                      MapGetOr(st.type_matrix, key, "Reference")])],
                    characters, st, prune_threshold, Tail(pair_order))

SetMax(S) == IF S = {} THEN 0 ELSE CHOOSE x \in S : \A y \in S : y <= x

\* Metrics whose max_edges counts every pair in both directions.
BuildMetricsOrderedPairs(n_chars, es) ==
    LET component_sizes == ComponentSizes(es.uf)
        isolated_count  == IF n_chars > 0
                           THEN n_chars - Cardinality(es.connected_indices) ELSE 0
        max_edges       == IF n_chars > 1 THEN n_chars * (n_chars - 1) ELSE 1
    IN  [network_density |-> F32Div(F32FromInt(Len(es.edges)), F32FromInt(max_edges)),
         connected_components |-> Cardinality(DOMAIN component_sizes),
         largest_component_size |-> SetMax(Range(component_sizes)),
         isolation_ratio |-> IF n_chars > 0
                             THEN F32Div(F32FromInt(isolated_count), F32FromInt(n_chars))
                             ELSE F32Zero]

BuildMetrics(n_chars, es) ==
    LET component_sizes == ComponentSizes(es.uf)
        isolated_count  == IF n_chars > 0
                           THEN n_chars - Cardinality(es.connected_indices) ELSE 0
        max_edges       == IF n_chars > 1 THEN (n_chars * (n_chars - 1)) \div 2 ELSE 1
    IN  [network_density |-> F32Div(F32FromInt(Len(es.edges)), F32FromInt(max_edges)),
         connected_components |-> Cardinality(DOMAIN component_sizes),
         largest_component_size |-> SetMax(Range(component_sizes)),
         isolation_ratio |-> IF n_chars > 0
                             THEN F32Div(F32FromInt(isolated_count), F32FromInt(n_chars))
                             ELSE F32Zero]

\* Steps 4-6 of build_character_graph_cached, once the chapters are processed.
FinishGraph(characters, st, prune_threshold, pair_order, weights) ==
    LET n_chars == Len(characters)
        es == BuildEdges([uf |-> UnionFindNew(n_chars), connected_indices |-> {},
                          edges |-> <<>>],
                         characters, st, prune_threshold, pair_order)
    IN  [nodes |-> BuildNodes(characters, st, weights),
         edges |-> es.edges,
         metrics |-> BuildMetrics(n_chars, es)]

Ok(v) == [ok |-> TRUE, val |-> v]

Err(e) == [ok |-> FALSE, err |-> e]

\* build_character_graph_cached with custom_weights = None.  chapter_order and
\* pair_order are the iteration orders of the two HashMaps it loops over:
\* chapter_order a permutation of the keys of chapter_mentions, pair_order a
\* permutation of all index pairs, of which weight_matrix holds some.
GraphAccumulate(characters, chapter_contents, chapter_mentions, proximity_window, chapter_order) ==
    ProcessChapters(GraphAccumulatorNew(Len(characters)), characters, chapter_contents,
                    chapter_mentions, chapter_order, proximity_window, GraphWeightsDefault)

build_character_graph_cached(characters, chapter_contents, chapter_mentions, proximity_window, prune_threshold, chapter_order, pair_order) ==
    IF Len(characters) = 0 THEN Ok(EmptyGraphPayload)
    ELSE LET st == GraphAccumulate(characters, chapter_contents, chapter_mentions,
                                   proximity_window, chapter_order)
         IN  IF st.error.some THEN Err(<<"Intelligence", st.error.val>>)
             ELSE Ok(FinishGraph(characters, st, prune_threshold,
                                 SelectSeq(pair_order,
                                           LAMBDA k : k \in DOMAIN st.weight_matrix),
                                 GraphWeightsDefault))

-----------------------------------------------------------------------------
(* File repository and path resolution (storage/fs_repo.rs,                *)
(* storage/files.rs).  A file is [exists, readable, content, modified]; a  *)
(* filename is the sequence of its path components.                        *)

\* LocalFileRepository::get_metadata
get_metadata(file) ==
    IF file.exists
    THEN Ok([len |-> Len(file.content), modified |-> file.modified])
    ELSE Err("Io")

\* LocalFileRepository::read_file
read_file(file) ==
    IF file.exists /\ file.readable THEN Ok(file.content) ELSE Err("Io")

\* Component::Normal and Component::CurDir are the components allowed.
ComponentAllowed(component) == component \notin {"..", "/"}

resolve_chapter_path(root_path, chapters, chapter_id) ==
    LET hits == {k \in DOMAIN chapters : chapters[k].id = chapter_id}
    IN  IF hits = {} THEN Err(<<"ChapterNotFound", chapter_id>>)
        ELSE LET fname == chapters[CHOOSE k \in hits : \A j \in hits : k <= j].filename
             IN  IF \E c \in Range(fname) : ~ComponentAllowed(c)
                 THEN Err(<<"ChapterNotFound", chapter_id>>)
                 ELSE Ok([root |-> root_path, file |-> fname])

-----------------------------------------------------------------------------
(* Coordinator (intelligence/coordinator.rs).                              *)

\* The bytes get_or_create_scanner feeds the hasher for one character: id,
\* name, then every alias, with nothing between them.
CharacterBytes(c) == <<c.id>> \o c.name \o Flatten(c.aliases)

\* current_hash: SHA-256 over the concatenated bytes, taken as injective on
\* them, so the signature is modelled as the byte string itself.
RosterSignature(characters) ==
    Flatten([i \in DOMAIN characters |-> CharacterBytes(characters[i])])

\* analyze_project without its step 1: no roster takes the short cut.
RosterIsEmptyNever(characters) == FALSE

\* analyze_project step 1
RosterIsEmpty(characters) == characters = <<>>

\* A test of a mention-store entry that leaves the scanner signature out.
CacheEntryValidIgnoringScanner(entry, file_meta, scanner_hash) ==
    /\ entry.len = file_meta.len
    /\ entry.modified = file_meta.modified

\* A test that compares the stored size with the modification time and the
\* stored modification time with the size.
CacheEntryValidSwapped(entry, file_meta, scanner_hash) ==
    /\ entry.len = file_meta.modified
    /\ entry.modified = file_meta.len
    /\ entry.scanner_hash = scanner_hash

\* The test of a mention-store entry against the chapter's metadata and the
\* scanner in use (coordinator.rs:184-186).
CacheEntryValid(entry, file_meta, scanner_hash) ==
    /\ entry.len = file_meta.len
    /\ entry.modified = file_meta.modified
    /\ entry.scanner_hash = scanner_hash

\* scan_and_cache without the write: scan, then a word index per mention.
ScanWithWordIndex(scanner, content) ==
    LET raw_mentions == Scan(scanner, content)
        word_starts  == WordIndexerNew(content)
    IN  [k \in DOMAIN raw_mentions |->
           [offset |-> raw_mentions[k].offset,
            word_idx |-> get_word_index(word_starts, raw_mentions[k].offset),
            id |-> raw_mentions[k].id]]

\* A filter that lets every chapter pass.
ChapterPassesFilterAlways(options, chapter_id) == TRUE

ChapterPassesFilter(options, chapter_id) ==
    options.chapter_filter.some => chapter_id \in options.chapter_filter.val

\* process_chapters step 1: chapter id -> path of the chapters that pass the
\* filter and resolve.
IdentifyTasks(root_path, chapters, options) ==
    LET ids == {chapters[k].id : k \in DOMAIN chapters}
        ok  == {cid \in ids :
                  /\ ChapterPassesFilter(options, cid)
                  /\ resolve_chapter_path(root_path, chapters, cid).ok}
    IN  [cid \in ok |-> resolve_chapter_path(root_path, chapters, cid).val]

\* The keys weight_matrix can hold for n characters.
AllPairs(n) == {p \in (0..(n - 1)) \X (0..(n - 1)) : p[1] < p[2]}

-----------------------------------------------------------------------------
(* Names and texts the model draws its inputs from.                        *)

Robert      == <<"R","o","b","e","r","t">>
Bob         == <<"B","o","b">>
Bobby       == <<"B","o","b","b","y">>
Chris       == <<"C","h","r","i","s">>
Christopher == <<"C","h","r","i","s","t","o","p","h","e","r">>

Character(id, name, aliases, role) ==
    [id |-> id, name |-> name, aliases |-> aliases, role |-> role]

\* test_scanner_alias_word_boundary
RosterRobert == <<Character("u1", Robert, <<Bob>>, "Protagonist")>>
\* test_scanner_with_aliases
RosterRobertBobby == <<Character("u1", Robert, <<Bob, Bobby>>, "Protagonist")>>
\* "Christopher" over "Chris" (scanner.rs:81)
RosterChris == <<Character("u1", Chris, <<>>, "Protagonist"),
                 Character("u2", Christopher, <<>>, "Secondary")>>

Alice == <<"A","l","i","c","e">>

Ed == <<"E","d">>

Eva == <<AccentLead, AccentUpper, "v", "a">>

\* A name that ends as a machine reference begins, and a name with a
\* non-ASCII capital.
RosterEdEva == <<Character("u1", Ed, <<>>, "Protagonist"),
                 Character("u2", Eva, <<>>, "Secondary")>>

\* Scenario B / test_co_presence_detection
RosterAliceBob == <<Character("u1", Alice, <<>>, "Protagonist"),
                    Character("u2", Bob, <<>>, "Secondary")>>

RosterAlice == <<Character("u1", Alice, <<>>, "Protagonist")>>

TextScenarioB ==
    Alice \o <<" ","w","a","l","k","e","d"," ","i","n","t","o"," ","t","h","e"," ",
               "r","o","o","m","."," ">>
    \o Bob \o <<" ","w","a","s"," ","a","l","r","e","a","d","y"," ","t","h","e","r","e",".">>

AlBob == <<"A", "l", " ">> \o Bob

\* A name of two words that ends with the name of another character and
\* begins with that character's alias.
RosterAlBob == <<Character("u1", AlBob, <<>>, "Protagonist"),
                 Character("u2", Bob, <<(<<"A", "l">>)>>, "Secondary")>>

ScanRosters ==
    {<<>>, RosterRobert, RosterRobertBobby, RosterChris, RosterEdEva, RosterAlBob}

TextBobbyIsNotBob ==
    <<"B","o","b","b","y"," ","i","s"," ","n","o","t"," ","B","o","b">>

TextRobertMetBob ==
    Robert \o <<" ","m","e","t"," ">> \o Bob
    \o <<" ","a","n","d"," ","t","h","e","y"," ","c","a","l","l","e","d"," ">>
    \o Bobby \o <<" ","o","v","e","r",".">>

MaxTokens == 3

\* data-id="u1" and data-id='u1' as they stand in a text.
DataIdDouble == DataIdPrefix \o <<"\"", "u1", "\"">>

DataIdSingle == DataIdPrefix \o <<"'", "u1", "'">>

ScanTokens ==
    {Bob, <<"b","y">>, Chris, <<"t","o","p","h","e","r">>, <<" ">>, <<"_">>, <<"@">>,
     DataIdDouble, DataIdSingle}

\* "@Edata-id="u1"": the tag of Ed run into a machine reference.
TextTagThenDataId == <<"@", "E">> \o DataIdDouble

\* "Edata-id="u1"": the name Ed run into a machine reference.
TextNameThenDataId == <<"E">> \o DataIdDouble

\* "Eva" with its accented capital, all in lower case, and as a tag.
TextEva == Eva

TextEvaLower == <<AccentLead, AccentLower, "v", "a">>

TextAtEva == <<"@">> \o Eva

\* "xAl Bob": the two-word name glued to a letter; "Al Bobby": the two-word
\* name run into more letters.
TextGluedAlBob == <<"x">> \o AlBob

TextAlBobby == AlBob \o <<"b", "y">>

ScanTexts ==
    {Flatten(ts) : ts \in SeqsUpTo(ScanTokens, MaxTokens)}
    \cup {TextBobbyIsNotBob, TextRobertMetBob}
    \cup {TextTagThenDataId, TextEva, TextEvaLower, TextAtEva,
           TextEva \o <<" ">> \o Ed, TextNameThenDataId,
           AlBob, TextGluedAlBob, TextAlBobby}

-----------------------------------------------------------------------------
(* Inputs of the coordinator: one project with two chapters.               *)

MaxCalls == 2

MaxEdits == 1

CallIds == 1..MaxCalls

\* Two pairs of adjacent mentions of Alice and Bob.
TextAliceBobAlice == Alice \o <<" ">> \o Bob \o <<" ">> \o Alice

\* As long as TextAliceBobAlice.
TextAliceAliceBob == Alice \o <<" ">> \o Alice \o <<" ">> \o Bob

TextAliceFarBob == Alice \o <<" ","x"," ","x"," ">> \o Bob

TextBobAlice == Bob \o <<" ">> \o Alice

TextNoMention == <<"x"," ","y">>

ManifestBoth ==
    <<[id |-> "ch1", filename |-> <<"ch1.md">>], [id |-> "ch2", filename |-> <<"ch2.md">>]>>

\* ch2 names a file outside the manuscript directory: it does not resolve.
ManifestEscaping ==
    <<[id |-> "ch1", filename |-> <<"ch1.md">>],
      [id |-> "ch2", filename |-> <<"..", "ch2.md">>]>>

\* The bytes of RosterAliceBob, cut differently into name and alias: "Ali"
\* with the alias "ce".
RosterAliCeBob ==
    <<Character("u1", <<"A","l","i">>, <<(<<"c","e">>)>>, "Protagonist"),
      Character("u2", Bob, <<>>, "Secondary")>>

ProjectRosters == {<<>>, RosterAlice, RosterAliceBob, RosterAliCeBob}

File(content, modified) ==
    [exists |-> TRUE, readable |-> TRUE, content |-> content, modified |-> modified]

MissingFile == [exists |-> FALSE, readable |-> FALSE, content |-> <<>>, modified |-> 0]

PathOf(project, name) == [root |-> project, file |-> <<name>>]

\* prune_threshold.unwrap_or(0.05)
DefaultPruneThreshold == F32(13421773, -28)

AnalysisOptions(proximity_window, prune_threshold, chapter_filter) ==
    [proximity_window |-> proximity_window, prune_threshold |-> prune_threshold,
     chapter_filter |-> chapter_filter]

\* The defaults of the command (window 50, threshold 0.05, no filter), and a
\* narrow window with a filter.
AnalysisOptionsSet ==
    {AnalysisOptions(50, DefaultPruneThreshold, NoneOpt),
     AnalysisOptions(2, DefaultPruneThreshold, Some({"ch1"}))}

NoScanner == [patterns |-> <<>>, ids |-> <<>>]

IdleCall ==
    [pc |-> "idle", project_id |-> None, characters |-> <<>>, chapters |-> <<>>,
     options |-> [proximity_window |-> 0, prune_threshold |-> F32Zero,
                 chapter_filter |-> NoneOpt],
     scanner |-> NoScanner, scanner_hash |-> <<>>,
     tasks |-> EmptyMap, joined |-> {},
     chapter_texts |-> EmptyMap, chapter_mentions |-> EmptyMap,
     files_at_start |-> EmptyMap, files_at_return |-> EmptyMap,
     store_at_start |-> EmptyMap, guards |-> {},
     result |-> Err("pending")]

\* A task that starts at the mention-store lookup, without the stat.
NewTaskSkippingStat(path) ==
    [pc |-> "check_cache", path |-> path, file_meta |-> [len |-> 0, modified |-> 0],
     seen |-> NoneOpt, content |-> <<>>, source |-> None, out |-> NoneOpt, ops |-> <<>>,
     guards |-> {}, read_meta |-> [len |-> 0, modified |-> 0]]

\* A spawned chapter task.  ops is the list of the calls it has made so far
\* on the file repository and on the mention store; read_meta is the size
\* and the modification time of the file version that read_file returned.
NewTask(path) ==
    [pc |-> "get_metadata", path |-> path, file_meta |-> [len |-> 0, modified |-> 0],
     seen |-> NoneOpt, content |-> <<>>, source |-> None, out |-> NoneOpt, ops |-> <<>>,
     guards |-> {}, read_meta |-> [len |-> 0, modified |-> 0]]

IdleScanRun ==
    [pc |-> "off", characters |-> <<>>, text |-> <<>>, scanner |-> NoScanner,
     matches |-> <<>>, mentions |-> <<>>, err |-> None]

IdleGraphRun ==
    [pc |-> "off", characters |-> <<>>, contents |-> EmptyMap,
     chapter_texts |-> EmptyMap, chapter_mentions |-> EmptyMap,
     proximity_window |-> 0, prune_threshold |-> F32Zero, chapter_order |-> <<>>,
     result |-> Err("pending")]

IdleNumRun ==
    [pc |-> "off", characters |-> <<>>, mention_counts |-> <<>>, nodes |-> <<>>,
     word_distances |-> <<>>, proximity_window |-> 0, bonuses |-> <<>>,
     weight_matrix |-> EmptyMap, pair_order |-> <<>>, prune_threshold |-> F32Zero,
     component_sizes |-> EmptyMap, payload |-> EmptyGraphPayload,
     linear_mentions |-> <<>>, text |-> <<>>, word_starts |-> <<>>, word_indices |-> <<>>]

-----------------------------------------------------------------------------
(* Inputs of the graph builder: a roster of up to three characters and up  *)
(* to two chapters, the first of up to MaxWords words.                     *)

RosterAliceBobChris ==
    <<Character("u1", Alice, <<>>, "Protagonist"),
      Character("u2", Bob, <<>>, "Secondary"),
      Character("u3", Chris, <<>>, "Antagonist")>>

GraphRosters == {RosterAlice, RosterAliceBob, RosterAliceBobChris}

MaxWords == 3

GraphWords == {Alice, Bob, Chris, <<"x">>}

RECURSIVE JoinWords(_)
JoinWords(ws) ==
    IF ws = <<>> THEN <<>>
    ELSE IF Len(ws) = 1 THEN Head(ws)
    ELSE Head(ws) \o <<" ">> \o JoinWords(Tail(ws))

GraphTexts == {JoinWords(ws) : ws \in SeqsUpTo(GraphWords, MaxWords)} \cup {TextScenarioB}

\* One whitespace-delimited word holding two mentions: a name, then a tag.
AliceAtBob == Alice \o <<"@">> \o Bob

GraphSecondTexts == {TextAliceFarBob, TextBobAlice, AliceAtBob}

GraphContents ==
    {EmptyMap}
    \cup {[cid \in {"ch1"} |-> t] : t \in GraphTexts}
    \cup {[cid \in {"ch1", "ch2"} |-> IF cid = "ch1" THEN t ELSE u] :
             t \in GraphTexts, u \in GraphSecondTexts}

GraphWindows == {2, 50}

GraphThresholds == {DefaultPruneThreshold, F32One}

-----------------------------------------------------------------------------
(* Spec: analyze_project calls on one service, one after the other, the    *)
(* chapter tasks of a call running concurrently, while chapter files and   *)
(* the roster are edited.                                                  *)

Init ==
    /\ metadata \in {[p1 |-> [characters |-> r, chapters |-> m]] :
                       r \in {RosterAliceBob}, m \in {ManifestBoth, ManifestEscaping}}
    /\ files \in {[path \in {PathOf("p1", "ch1.md"), PathOf("p1", "ch2.md")} |->
                     IF path = PathOf("p1", "ch1.md") THEN f1 ELSE f2] :
                  f1 \in {File(TextAliceBobAlice, 1)},
                  f2 \in {File(TextAliceFarBob, 1), File(TextNoMention, 1)}}
    /\ scanner_cache = EmptyMap
    /\ content_cache = EmptyMap
    /\ calls = [i \in CallIds |-> IdleCall]
    /\ edits = 0
    /\ scanRun = IdleScanRun
    /\ graphRun = IdleGraphRun
    /\ numRun = IdleNumRun

InFlight(i) == calls[i].pc \notin {"idle", "returned"}

Return(call, result) ==
    [call EXCEPT !.pc = "returned", !.result = result, !.files_at_return = files]

\* analyze_project up to its first await: the empty-roster short cut.
BeginAnalyze(i, p, options) ==
    /\ calls[i].pc = "idle"
    /\ LET md   == metadata[p]
           call == [IdleCall EXCEPT !.project_id = p, !.characters = md.characters,
                                    !.chapters = md.chapters, !.options = options,
                                    !.files_at_start = files,
                                    !.store_at_start = content_cache]
       IN  calls' = [calls EXCEPT ![i] =
              IF RosterIsEmpty(md.characters)
              THEN Return(call, build_character_graph_cached(
                                  md.characters, EmptyMap, EmptyMap,
                                  options.proximity_window, options.prune_threshold,
                                  <<>>, <<>>))
              ELSE [call EXCEPT !.pc = "get_or_create_scanner"]]
    /\ UNCHANGED <<metadata, files, scanner_cache, content_cache, edits, scanRun, graphRun, numRun>>

\* A call is made once the calls before it have returned.
StartAnalyze(i, p, options) ==
    /\ \A j \in CallIds : j < i => calls[j].pc = "returned"
    /\ BeginAnalyze(i, p, options)

\* get_or_create_scanner: the hash and the optimistic read.
ScannerOptimisticRead(i) ==
    /\ calls[i].pc = "get_or_create_scanner"
    /\ LET current_hash == RosterSignature(calls[i].characters)
           p == calls[i].project_id
       IN  calls' = [calls EXCEPT ![i] =
              IF p \in DOMAIN scanner_cache /\ scanner_cache[p].hash = current_hash
              THEN [@ EXCEPT !.pc = "process_chapters",
                             !.scanner = scanner_cache[p].scanner,
                             !.scanner_hash = scanner_cache[p].hash]
              ELSE [@ EXCEPT !.pc = "rebuild_scanner", !.scanner_hash = current_hash]]
    /\ UNCHANGED <<metadata, files, scanner_cache, content_cache, edits, scanRun, graphRun, numRun>>

\* get_or_create_scanner: rebuild and write to the cache.
ScannerRebuild(i) ==
    /\ calls[i].pc = "rebuild_scanner"
    /\ LET r == TryNew(calls[i].characters)
       IN  IF r.ok
           THEN /\ scanner_cache' = MapPut(scanner_cache, calls[i].project_id,
                                           [hash |-> calls[i].scanner_hash,
                                            scanner |-> r.scanner])
                /\ calls' = [calls EXCEPT ![i] =
                               [@ EXCEPT !.pc = "process_chapters", !.scanner = r.scanner]]
           ELSE /\ scanner_cache' = scanner_cache
                /\ calls' = [calls EXCEPT ![i] = Return(@, Err(<<"Intelligence", r.err>>))]
    /\ UNCHANGED <<metadata, files, content_cache, edits, scanRun, graphRun, numRun>>

\* process_chapters steps 1 and 2: identify the chapters and spawn their tasks.
SpawnChapterTasks(i) ==
    /\ calls[i].pc = "process_chapters"
    /\ LET paths == IdentifyTasks(calls[i].project_id, calls[i].chapters, calls[i].options)
       IN  calls' = [calls EXCEPT ![i] =
              [@ EXCEPT !.pc = "join",
                        !.tasks = [cid \in DOMAIN paths |-> NewTask(paths[cid])]]]
    /\ UNCHANGED <<metadata, files, scanner_cache, content_cache, edits, scanRun, graphRun, numRun>>

TaskAt(i, cid, pc) ==
    /\ calls[i].pc = "join"
    /\ cid \in DOMAIN calls[i].tasks
    /\ calls[i].tasks[cid].pc = pc

\* A. Check Metadata
TaskGetMetadata(i, cid) ==
    /\ TaskAt(i, cid, "get_metadata")
    /\ LET r == get_metadata(files[calls[i].tasks[cid].path])
       IN  calls' = [calls EXCEPT ![i].tasks[cid] =
              IF r.ok
              THEN [@ EXCEPT !.pc = "check_cache", !.file_meta = r.val,
                             !.ops = Append(@, "get_metadata")]
              ELSE [@ EXCEPT !.pc = "done", !.source = "stat_failed", !.out = NoneOpt,
                             !.ops = Append(@, "get_metadata")]]
    /\ UNCHANGED <<metadata, files, scanner_cache, content_cache, edits, scanRun, graphRun, numRun>>

\* B. Check Cache
TaskCheckCache(i, cid) ==
    /\ TaskAt(i, cid, "check_cache")
    /\ LET t     == calls[i].tasks[cid]
           entry == IF cid \in DOMAIN content_cache THEN Some(content_cache[cid]) ELSE NoneOpt
       IN  calls' = [calls EXCEPT ![i].tasks[cid] =
              IF entry.some /\ CacheEntryValid(entry.val, t.file_meta, calls[i].scanner_hash)
              THEN [@ EXCEPT !.pc = "done", !.seen = entry, !.source = "cache",
                             !.out = Some([content |-> NoneOpt,
                                           mentions |-> entry.val.mentions]),
                             !.ops = Append(@, "cache_get")]
              ELSE [@ EXCEPT !.pc = "read_file", !.seen = entry,
                             !.ops = Append(@, "cache_get")]]
    /\ UNCHANGED <<metadata, files, scanner_cache, content_cache, edits, scanRun, graphRun, numRun>>

\* A read whose failure ends the whole call with the I/O error.
TaskReadFileAborting(i, cid) ==
    /\ TaskAt(i, cid, "read_file")
    /\ LET r == read_file(files[calls[i].tasks[cid].path])
       IN  calls' = [calls EXCEPT ![i] =
              IF ~r.ok
              THEN Return(@, Err(<<"Io", cid>>))
              ELSE IF r.val = <<>>
              THEN [@ EXCEPT !.tasks[cid] =
                      [@ EXCEPT !.pc = "done", !.source = "empty",
                                !.out = Some([content |-> Some(r.val), mentions |-> <<>>]),
                                !.ops = Append(@, "read_file")]]
              ELSE [@ EXCEPT !.tasks[cid] =
                      [@ EXCEPT !.pc = "scan_and_cache", !.content = r.val,
                                !.read_meta = get_metadata(files[calls[i].tasks[cid].path]).val,
                                !.ops = Append(@, "read_file")]]]
    /\ UNCHANGED <<metadata, files, scanner_cache, content_cache, edits, scanRun, graphRun, numRun>>

\* C. Cache Miss: the read, and the empty-content return.
TaskReadFile(i, cid) ==
    /\ TaskAt(i, cid, "read_file")
    /\ LET r == read_file(files[calls[i].tasks[cid].path])
       IN  calls' = [calls EXCEPT ![i].tasks[cid] =
              IF ~r.ok
              THEN [@ EXCEPT !.pc = "done", !.source = "read_failed", !.out = NoneOpt,
                             !.ops = Append(@, "read_file")]
              ELSE IF r.val = <<>>
              THEN [@ EXCEPT !.pc = "done", !.source = "empty",
                             !.out = Some([content |-> Some(r.val), mentions |-> <<>>]),
                             !.ops = Append(@, "read_file")]
              ELSE [@ EXCEPT !.pc = "scan_and_cache", !.content = r.val,
                             !.read_meta = get_metadata(files[calls[i].tasks[cid].path]).val,
                             !.ops = Append(@, "read_file")]]
    /\ UNCHANGED <<metadata, files, scanner_cache, content_cache, edits, scanRun, graphRun, numRun>>

\* scan_and_cache, and the task's return.
TaskScanAndCache(i, cid) ==
    /\ TaskAt(i, cid, "scan_and_cache")
    /\ LET t        == calls[i].tasks[cid]
           mentions == ScanWithWordIndex(calls[i].scanner, t.content)
       IN  /\ content_cache' = MapPut(content_cache, cid,
                                      [len |-> t.file_meta.len,
                                       modified |-> t.file_meta.modified,
                                       scanner_hash |-> calls[i].scanner_hash,
                                       mentions |-> mentions])
           /\ calls' = [calls EXCEPT ![i].tasks[cid] =
                          [@ EXCEPT !.pc = "done", !.source = "scan",
                                    !.out = Some([content |-> Some(t.content),
                                                  mentions |-> mentions]),
                                    !.ops = Append(@, "cache_insert")]]
    /\ UNCHANGED <<metadata, files, scanner_cache, edits, scanRun, graphRun, numRun>>

\* The insertions join_next's loop makes for a task that returned data_opt.
JoinInsert(call, cid, data_opt) ==
    IF ~data_opt.some THEN call
    ELSE [call EXCEPT
            !.chapter_mentions = MapPut(@, cid, data_opt.val.mentions),
            !.chapter_texts = IF data_opt.val.content.some
                              THEN MapPut(@, cid, data_opt.val.content.val)
                              ELSE @]

\* 3. Process Results: join_next hands over a completed task, whichever.
JoinNext(i, cid) ==
    /\ TaskAt(i, cid, "done")
    /\ cid \notin calls[i].joined
    /\ calls' = [calls EXCEPT ![i] =
                   JoinInsert([@ EXCEPT !.joined = @ \cup {cid}], cid,
                              calls[i].tasks[cid].out)]
    /\ UNCHANGED <<metadata, files, scanner_cache, content_cache, edits, scanRun, graphRun, numRun>>

\* A loop over the join set that ends with the first result handed over.
JoinSetEmptyAfterFirst(call) == call.joined # {} \/ DOMAIN call.tasks = {}

\* join_next gives None: every spawned task has been handed over.
JoinSetEmpty(call) == call.joined = DOMAIN call.tasks

\* analyze_project step 4, once the join set is empty.
BuildGraph(i) ==
    /\ calls[i].pc = "join"
    /\ JoinSetEmpty(calls[i])
    /\ \E chapter_order \in Orders(DOMAIN calls[i].chapter_mentions) :
       \E pair_order \in Orders(AllPairs(Len(calls[i].characters))) :
          calls' = [calls EXCEPT ![i] =
             Return(@,
                    build_character_graph_cached(
                       calls[i].characters, calls[i].chapter_texts,
                       calls[i].chapter_mentions, calls[i].options.proximity_window,
                       calls[i].options.prune_threshold, chapter_order, pair_order))]
    /\ UNCHANGED <<metadata, files, scanner_cache, content_cache, edits, scanRun, graphRun, numRun>>

\* In Spec the project and its files are edited between two calls: a call
\* borrows the metadata, and no claim settled under Spec is about a file
\* that changes under a running call.  An edit after the last call is seen
\* by no call.
Quiescent ==
    /\ \A i \in DOMAIN calls : ~InFlight(i)
    /\ \E i \in DOMAIN calls : calls[i].pc = "idle"

\* A chapter file is written (save_chapter or any other writer): the
\* modification time, in whole seconds, stays or advances.
WriteFile(path, content, modified) ==
    /\ Quiescent
    /\ edits < MaxEdits
    /\ modified \in {files[path].modified, files[path].modified + 1}
    /\ File(content, modified) # files[path]
    /\ files' = [files EXCEPT ![path] = File(content, modified)]
    /\ edits' = edits + 1
    /\ UNCHANGED <<metadata, scanner_cache, content_cache, calls, scanRun, graphRun, numRun>>

\* A chapter file is removed, or can no longer be read.
BreakFile(path, readable) ==
    /\ Quiescent
    /\ edits < MaxEdits
    /\ files[path].exists
    /\ files' = [files EXCEPT ![path] =
                   IF readable THEN MissingFile ELSE [@ EXCEPT !.readable = FALSE]]
    /\ files'[path] # files[path]
    /\ edits' = edits + 1
    /\ UNCHANGED <<metadata, scanner_cache, content_cache, calls, scanRun, graphRun, numRun>>

\* The roster is edited.
EditRoster(p, characters) ==
    /\ Quiescent
    /\ edits < MaxEdits
    /\ characters # metadata[p].characters
    /\ metadata' = [metadata EXCEPT ![p].characters = characters]
    /\ edits' = edits + 1
    /\ UNCHANGED <<files, scanner_cache, content_cache, calls, scanRun, graphRun, numRun>>

ChapterIds == {"ch1", "ch2"}

WrittenTexts == {TextAliceAliceBob, <<>>}

Next ==
    \/ \E i \in CallIds, p \in DOMAIN metadata, o \in AnalysisOptionsSet : StartAnalyze(i, p, o)
    \/ \E i \in CallIds : ScannerOptimisticRead(i)
    \/ \E i \in CallIds : ScannerRebuild(i)
    \/ \E i \in CallIds : SpawnChapterTasks(i)
    \/ \E i \in CallIds, cid \in ChapterIds : TaskGetMetadata(i, cid)
    \/ \E i \in CallIds, cid \in ChapterIds : TaskCheckCache(i, cid)
    \/ \E i \in CallIds, cid \in ChapterIds : TaskReadFile(i, cid)
    \/ \E i \in CallIds, cid \in ChapterIds : TaskScanAndCache(i, cid)
    \/ \E i \in CallIds, cid \in ChapterIds : JoinNext(i, cid)
    \/ \E i \in CallIds : BuildGraph(i)
    \/ \E path \in DOMAIN files, c \in WrittenTexts, m \in 0..(MaxEdits + 1) :
          WriteFile(path, c, m)
    \/ \E path \in DOMAIN files, r \in BOOLEAN : BreakFile(path, r)
    \/ \E p \in DOMAIN metadata, r \in ProjectRosters : EditRoster(p, r)

Spec == Init /\ [][Next]_vars

-----------------------------------------------------------------------------
(* SpecTwo: two projects analysed through one service, hence with one      *)
(* scanner store and one mention store.  The second project is a copy of   *)
(* the first with its own id: the chapter carries the same id in both, and *)
(* the roster is the same or has lost a character; the chapter file of the *)
(* copy has been rewritten to a text of the same length.  The calls are    *)
(* made one after the other and nothing is edited.                         *)

ManifestOne == <<[id |-> "ch1", filename |-> <<"ch1.md">>]>>

InitTwo ==
    /\ metadata \in {[p \in {"p1", "p2"} |->
                        [characters |-> IF p = "p1" THEN RosterAliceBob ELSE r,
                         chapters |-> ManifestOne]] :
                     r \in {RosterAliceBob, RosterAlice}}
    /\ files \in {[path \in {PathOf("p1", "ch1.md"), PathOf("p2", "ch1.md")} |->
                     IF path = PathOf("p1", "ch1.md") THEN File(TextAliceBobAlice, 1)
                     ELSE File(TextAliceAliceBob, m)] :
                  m \in 1..2}
    /\ scanner_cache = EmptyMap
    /\ content_cache = EmptyMap
    /\ calls = [i \in CallIds |-> IdleCall]
    /\ edits = 0
    /\ scanRun = IdleScanRun
    /\ graphRun = IdleGraphRun
    /\ numRun = IdleNumRun

NextTwo ==
    \/ \E i \in CallIds, p \in DOMAIN metadata, o \in AnalysisOptionsSet : StartAnalyze(i, p, o)
    \/ \E i \in CallIds : ScannerOptimisticRead(i)
    \/ \E i \in CallIds : ScannerRebuild(i)
    \/ \E i \in CallIds : SpawnChapterTasks(i)
    \/ \E i \in CallIds, cid \in ChapterIds : TaskGetMetadata(i, cid)
    \/ \E i \in CallIds, cid \in ChapterIds : TaskCheckCache(i, cid)
    \/ \E i \in CallIds, cid \in ChapterIds : TaskReadFile(i, cid)
    \/ \E i \in CallIds, cid \in ChapterIds : TaskScanAndCache(i, cid)
    \/ \E i \in CallIds, cid \in ChapterIds : JoinNext(i, cid)
    \/ \E i \in CallIds : BuildGraph(i)

SpecTwo == InitTwo /\ [][NextTwo]_vars

-----------------------------------------------------------------------------
(* SpecScan: try_new on a roster, then scan of one text.                   *)

InitScan ==
    /\ scanRun \in {[IdleScanRun EXCEPT !.pc = "new", !.characters = r, !.text = t] :
                      r \in ScanRosters, t \in ScanTexts}
    /\ metadata = EmptyMap
    /\ files = EmptyMap
    /\ scanner_cache = EmptyMap
    /\ content_cache = EmptyMap
    /\ calls = <<>>
    /\ edits = 0
    /\ graphRun = IdleGraphRun
    /\ numRun = IdleNumRun

ScanTryNew ==
    /\ scanRun.pc = "new"
    /\ LET r == TryNew(scanRun.characters)
       IN  scanRun' = IF r.ok
                      THEN [scanRun EXCEPT !.pc = "built", !.scanner = r.scanner]
                      ELSE [scanRun EXCEPT !.pc = "failed", !.err = r.err]
    /\ UNCHANGED <<metadata, files, scanner_cache, content_cache, calls, edits, graphRun, numRun>>

ScanText ==
    /\ scanRun.pc = "built"
    /\ scanRun' = [scanRun EXCEPT
                     !.pc = "scanned",
                     !.matches = ScanMatches(scanRun.scanner, scanRun.text, 0),
                     !.mentions = Scan(scanRun.scanner, scanRun.text)]
    /\ UNCHANGED <<metadata, files, scanner_cache, content_cache, calls, edits, graphRun, numRun>>

NextScan == ScanTryNew \/ ScanText

SpecScan == InitScan /\ [][NextScan]_vars

-----------------------------------------------------------------------------
(* SpecGraph: the chapters of a project are scanned with the roster's      *)
(* scanner, as on a first analyze_project call, and the graph is built.    *)

InitGraph ==
    /\ graphRun \in {[IdleGraphRun EXCEPT !.pc = "scan", !.characters = r, !.contents = c,
                                          !.proximity_window = w, !.prune_threshold = th] :
                       r \in GraphRosters, c \in GraphContents,
                       w \in GraphWindows, th \in GraphThresholds}
    /\ metadata = EmptyMap
    /\ files = EmptyMap
    /\ scanner_cache = EmptyMap
    /\ content_cache = EmptyMap
    /\ calls = <<>>
    /\ edits = 0
    /\ scanRun = IdleScanRun
    /\ numRun = IdleNumRun

\* One chapter task on its miss path: the content is read and scanned.
GraphScanChapter(cid) ==
    /\ graphRun.pc = "scan"
    /\ cid \in DOMAIN graphRun.contents
    /\ cid \notin DOMAIN graphRun.chapter_mentions
    /\ LET scanner == TryNew(graphRun.characters).scanner
           content == graphRun.contents[cid]
       IN  graphRun' = [graphRun EXCEPT
              !.chapter_texts = MapPut(@, cid, content),
              !.chapter_mentions = MapPut(@, cid, ScanWithWordIndex(scanner, content))]
    /\ UNCHANGED <<metadata, files, scanner_cache, content_cache, calls, edits, scanRun, numRun>>

\* analyze_project step 4 on the joined chapters.
GraphBuild ==
    /\ graphRun.pc = "scan"
    /\ DOMAIN graphRun.chapter_mentions = DOMAIN graphRun.contents
    /\ \E chapter_order \in Orders(DOMAIN graphRun.chapter_mentions) :
       \E pair_order \in Orders(AllPairs(Len(graphRun.characters))) :
          graphRun' = [graphRun EXCEPT
             !.pc = "built",
             !.chapter_order = chapter_order,
             !.result = build_character_graph_cached(
                           graphRun.characters, graphRun.chapter_texts,
                           graphRun.chapter_mentions, graphRun.proximity_window,
                           graphRun.prune_threshold, chapter_order, pair_order)]
    /\ UNCHANGED <<metadata, files, scanner_cache, content_cache, calls, edits, scanRun, numRun>>

NextGraph ==
    \/ \E cid \in ChapterIds : GraphScanChapter(cid)
    \/ GraphBuild

SpecGraph == InitGraph /\ [][NextGraph]_vars

-----------------------------------------------------------------------------
(* SpecNum: the numerical steps of the builder on their own inputs.  The   *)
(* nodes of two characters are built from given mention counts             *)
(* (graph.rs:175-190), or the proximity bonus of two word distances is     *)
(* computed for one window (graph.rs:49-55), or the edges and metrics are  *)
(* built from a given weight matrix (graph.rs:192-256).                    *)

\* enum CharacterRole
CharacterRoles == {"Protagonist", "Antagonist", "Secondary", "Extra"}

MaxCount == 10

MaxDistance == 101

NumWindows == {2, 50, 100}

NumRosters ==
    {<<Character("u1", Alice, <<>>, ra), Character("u2", Bob, <<>>, rb)>> :
       ra \in CharacterRoles, rb \in CharacterRoles}

RosterFour == RosterAliceBobChris \o <<Character("u4", Robert, <<>>, "Extra")>>

MetricRosters == {RosterAlice, RosterAliceBob, RosterAliceBobChris, RosterFour}

MaxPairs == 3

\* The iteration orders of a weight matrix of up to MaxPairs pairs of n
\* characters.
PairOrders(n) ==
    {po \in SeqsUpTo(AllPairs(n), MaxPairs) : Cardinality(Range(po)) = Len(po)}

\* Accumulated weights: 0.0, of two mentions in one word, and 1.0.
MetricWeights == {F32Zero, F32One}

\* Thresholds below, between and equal to the weights.
MetricThresholds == {F32Zero, DefaultPruneThreshold, F32One}

\* A run that builds the nodes of roster r from the mention counts.
NodesRun(r, mention_counts) ==
    [IdleNumRun EXCEPT !.pc = "nodes", !.characters = r, !.mention_counts = mention_counts]

\* A run that computes the bonus of two word distances in window w.
BonusRun(word_distances, w) ==
    [IdleNumRun EXCEPT !.pc = "bonus", !.word_distances = word_distances,
                       !.proximity_window = w]

\* A run that builds edges and metrics of roster r from the weight matrix
\* wm, iterated in order po, with threshold th.
MetricsRun(r, po, wm, th) ==
    [IdleNumRun EXCEPT !.pc = "metrics", !.characters = r, !.pair_order = po,
                       !.weight_matrix = wm, !.prune_threshold = th]

\* The mention lists of a chapter: up to MaxMentions mentions of two
\* characters, in any order, each in one of the words 0, 1 and 3.
MaxMentions == 4

WindowMentions == {[word_idx |-> w, idx |-> c] : w \in {0, 1, 3}, c \in 0..1}

LinearMentions(ms) ==
    [k \in DOMAIN ms |-> [char_offset |-> k - 1, word_idx |-> ms[k].word_idx, idx |-> ms[k].idx]]

SlidingWindows == {0, 1, 2}

\* A run of the sort and of the sliding window on the mentions of a chapter.
WindowRun(linear_mentions, w) ==
    [IdleNumRun EXCEPT !.pc = "window", !.linear_mentions = linear_mentions,
                       !.proximity_window = w]

\* The texts the word indexer is run on: up to MaxTextLen characters, each a
\* letter, a space or a line feed.
MaxTextLen == 5

IndexTexts == SeqsUpTo({"a", " ", "\n"}, MaxTextLen)

\* A run of WordIndexer::new on a text and of get_word_index on its offsets.
IndexRun(text) == [IdleNumRun EXCEPT !.pc = "index", !.text = text]

InitNum ==
    /\ \/ \E r \in NumRosters : \E ca \in 0..MaxCount : \E cb \in 0..MaxCount :
             numRun = NodesRun(r, <<ca, cb>>)
       \/ \E da \in 0..MaxDistance : \E db \in 0..MaxDistance : \E w \in NumWindows :
             numRun = BonusRun(<<da, db>>, w)
       \/ \E r \in MetricRosters : \E po \in PairOrders(Len(r)) :
          \E wm \in [Range(po) -> MetricWeights] : \E th \in MetricThresholds :
             numRun = MetricsRun(r, po, wm, th)
       \/ \E ms \in SeqsUpTo(WindowMentions, MaxMentions) : \E w \in SlidingWindows :
             numRun = WindowRun(LinearMentions(ms), w)
       \/ \E text \in IndexTexts : numRun = IndexRun(text)
    /\ metadata = EmptyMap
    /\ files = EmptyMap
    /\ scanner_cache = EmptyMap
    /\ content_cache = EmptyMap
    /\ calls = <<>>
    /\ edits = 0
    /\ scanRun = IdleScanRun
    /\ graphRun = IdleGraphRun

\* Step 4 of build_character_graph_cached on the given mention counts.
NumBuildNodes ==
    /\ numRun.pc = "nodes"
    /\ LET st == [GraphAccumulatorNew(Len(numRun.characters)) EXCEPT
                    !.mention_counts = numRun.mention_counts]
       IN  numRun' = [numRun EXCEPT
              !.pc = "nodes_built",
              !.nodes = BuildNodes(numRun.characters, st, GraphWeightsDefault)]
    /\ UNCHANGED <<metadata, files, scanner_cache, content_cache, calls, edits, scanRun, graphRun>>

\* proximity_bonus with the default base bonus, for both word distances.
NumProximityBonus ==
    /\ numRun.pc = "bonus"
    /\ numRun' = [numRun EXCEPT
          !.pc = "bonus_computed",
          !.bonuses = [k \in DOMAIN numRun.word_distances |->
                         proximity_bonus(numRun.word_distances[k], numRun.proximity_window,
                                         GraphWeightsDefault.base_proximity_bonus)]]
    /\ UNCHANGED <<metadata, files, scanner_cache, content_cache, calls, edits, scanRun, graphRun>>

\* Steps 4-6 of build_character_graph_cached on the given weight matrix and
\* threshold, every character of a pair having been mentioned once.
NumFinishGraph ==
    /\ numRun.pc = "metrics"
    /\ LET n_chars == Len(numRun.characters)
           paired  == UNION {Range(key) : key \in DOMAIN numRun.weight_matrix}
           st == [GraphAccumulatorNew(n_chars) EXCEPT
                    !.mention_counts = [i \in 1..n_chars |->
                                          IF (i - 1) \in paired THEN 1 ELSE 0],
                    !.first_mentions = [i \in 1..n_chars |->
                                          IF (i - 1) \in paired
                                          THEN Some([chapter_id |-> "ch1",
                                                     char_offset |-> 10 * (i - 1)])
                                          ELSE NoneOpt],
                    !.weight_matrix = numRun.weight_matrix,
                    !.type_matrix = [key \in DOMAIN numRun.weight_matrix |-> "CoPresence"]]
           es == BuildEdges([uf |-> UnionFindNew(n_chars), connected_indices |-> {},
                             edges |-> <<>>],
                            numRun.characters, st, numRun.prune_threshold, numRun.pair_order)
       IN  numRun' = [numRun EXCEPT
              !.pc = "metrics_built",
              !.component_sizes = ComponentSizes(es.uf),
              !.payload = FinishGraph(numRun.characters, st, numRun.prune_threshold,
                                      numRun.pair_order, GraphWeightsDefault)]
    /\ UNCHANGED <<metadata, files, scanner_cache, content_cache, calls, edits, scanRun, graphRun>>

\* The sort by word index and the sliding window over one chapter's
\* mentions (graph.rs:135-171).
NumSlidingWindow ==
    /\ numRun.pc = "window"
    /\ LET linear == SortByWordIdx(numRun.linear_mentions, Len(numRun.linear_mentions))
           st     == SlidingWindow(GraphAccumulatorNew(3), linear, 1,
                                   numRun.proximity_window, GraphWeightsDefault)
       IN  numRun' = [numRun EXCEPT !.pc = "window_done",
                                    !.weight_matrix = st.weight_matrix]
    /\ UNCHANGED <<metadata, files, scanner_cache, content_cache, calls, edits, scanRun, graphRun>>

\* WordIndexer::new, then get_word_index on every offset of the text and on
\* the offset of its end; word_indices[o + 1] is the index given for o.
NumWordIndex ==
    /\ numRun.pc = "index"
    /\ LET word_starts == WordIndexerNew(numRun.text)
       IN  numRun' = [numRun EXCEPT
              !.pc = "index_done",
              !.word_starts = word_starts,
              !.word_indices = [k \in 1..(Len(numRun.text) + 1) |->
                                  get_word_index(word_starts, k - 1)]]
    /\ UNCHANGED <<metadata, files, scanner_cache, content_cache, calls, edits, scanRun, graphRun>>

NextNum ==
    \/ NumWordIndex
    \/ NumSlidingWindow
    \/ NumBuildNodes
    \/ NumProximityBonus
    \/ NumFinishGraph

SpecNum == InitNum /\ [][NextNum]_vars

-----------------------------------------------------------------------------
(* SpecLock: analyze_project with the guards of the two RwLocks as steps.  *)
(* A guard is taken by read().await or write().await and dropped at the    *)
(* end of its block or at the return inside it; guards is the set of       *)
(* guards a call (scanner store) or a chapter task (mention store) holds.  *)
(* Two calls may overlap; files and roster do not change.                  *)

ScannerRead  == "scanner_cache.read"
ScannerWrite == "scanner_cache.write"
ContentRead  == "content_cache.read"
ContentWrite == "content_cache.write"

\* The calls that hold guard g of the scanner store.
ScannerHolders(g) == {i \in CallIds : g \in calls[i].guards}

\* The chapter tasks that hold guard g of the mention store.
ContentHolders(g) ==
    {ic \in CallIds \X ChapterIds :
       ic[2] \in DOMAIN calls[ic[1]].tasks /\ g \in calls[ic[1]].tasks[ic[2]].guards}

\* RwLock::write that is granted next to readers.
CanWriteIgnoringReaders(readers, writers) == writers = {}

\* RwLock::read is granted when no writer holds the lock.
CanRead(readers, writers) == writers = {}

\* RwLock::write is granted when nobody holds the lock.
CanWrite(readers, writers) == readers = {} /\ writers = {}

\* A guard that is not dropped.
KeepGuard(guards, g) == guards

\* The guard goes out of scope.
DropGuard(guards, g) == guards \ {g}

InitLock ==
    /\ metadata = [p1 |-> [characters |-> RosterAliceBob, chapters |-> ManifestBoth]]
    /\ files \in {[path \in {PathOf("p1", "ch1.md"), PathOf("p1", "ch2.md")} |->
                     IF path = PathOf("p1", "ch1.md") THEN File(TextAliceBobAlice, 1) ELSE f2] :
                  f2 \in {File(TextNoMention, 1), File(TextAliceFarBob, 1)}}
    /\ scanner_cache = EmptyMap
    /\ content_cache = EmptyMap
    /\ calls = [i \in CallIds |-> IdleCall]
    /\ edits = 0
    /\ scanRun = IdleScanRun
    /\ graphRun = IdleGraphRun
    /\ numRun = IdleNumRun

\* A call is made while at most the call before it is still running.
OverlapAnalyze(i, p, options) ==
    /\ \A j \in CallIds : j < i - 1 => calls[j].pc = "returned"
    /\ \A j \in CallIds : j < i => calls[j].pc # "idle"
    /\ BeginAnalyze(i, p, options)

\* let cache = self.scanner_cache.read().await
ScannerReadLock(i) ==
    /\ calls[i].pc = "get_or_create_scanner"
    /\ CanRead(ScannerHolders(ScannerRead), ScannerHolders(ScannerWrite))
    /\ calls' = [calls EXCEPT ![i] =
                   [@ EXCEPT !.pc = "scanner_get", !.guards = @ \cup {ScannerRead}]]
    /\ UNCHANGED <<metadata, files, scanner_cache, content_cache, edits, scanRun, graphRun, numRun>>

\* cache.get(&project_id) under the read guard, which the return or the end
\* of the block drops.
ScannerLookup(i) ==
    /\ calls[i].pc = "scanner_get"
    /\ LET current_hash == RosterSignature(calls[i].characters)
           p == calls[i].project_id
       IN  calls' = [calls EXCEPT ![i] =
              IF p \in DOMAIN scanner_cache /\ scanner_cache[p].hash = current_hash
              THEN [@ EXCEPT !.pc = "process_chapters",
                             !.scanner = scanner_cache[p].scanner,
                             !.scanner_hash = scanner_cache[p].hash,
                             !.guards = DropGuard(@, ScannerRead)]
              ELSE [@ EXCEPT !.pc = "rebuild_scanner", !.scanner_hash = current_hash,
                             !.guards = DropGuard(@, ScannerRead)]]
    /\ UNCHANGED <<metadata, files, scanner_cache, content_cache, edits, scanRun, graphRun, numRun>>

\* CharacterScanner::try_new, with no guard held.
ScannerTryNew(i) ==
    /\ calls[i].pc = "rebuild_scanner"
    /\ LET r == TryNew(calls[i].characters)
       IN  calls' = [calls EXCEPT ![i] =
              IF r.ok THEN [@ EXCEPT !.pc = "scanner_write", !.scanner = r.scanner]
              ELSE Return(@, Err(<<"Intelligence", r.err>>))]
    /\ UNCHANGED <<metadata, files, scanner_cache, content_cache, edits, scanRun, graphRun, numRun>>

\* let mut cache = self.scanner_cache.write().await
ScannerWriteLock(i) ==
    /\ calls[i].pc = "scanner_write"
    /\ CanWrite(ScannerHolders(ScannerRead), ScannerHolders(ScannerWrite))
    /\ calls' = [calls EXCEPT ![i] =
                   [@ EXCEPT !.pc = "scanner_insert", !.guards = @ \cup {ScannerWrite}]]
    /\ UNCHANGED <<metadata, files, scanner_cache, content_cache, edits, scanRun, graphRun, numRun>>

\* cache.insert under the write guard, which the return drops.
ScannerInsert(i) ==
    /\ calls[i].pc = "scanner_insert"
    /\ scanner_cache' = MapPut(scanner_cache, calls[i].project_id,
                               [hash |-> calls[i].scanner_hash, scanner |-> calls[i].scanner])
    /\ calls' = [calls EXCEPT ![i] =
                   [@ EXCEPT !.pc = "process_chapters",
                             !.guards = DropGuard(@, ScannerWrite)]]
    /\ UNCHANGED <<metadata, files, content_cache, edits, scanRun, graphRun, numRun>>

\* let cache = content_cache.read().await
TaskReadLock(i, cid) ==
    /\ TaskAt(i, cid, "check_cache")
    /\ CanRead(ContentHolders(ContentRead), ContentHolders(ContentWrite))
    /\ calls' = [calls EXCEPT ![i].tasks[cid] =
                   [@ EXCEPT !.pc = "cache_get", !.guards = @ \cup {ContentRead}]]
    /\ UNCHANGED <<metadata, files, scanner_cache, content_cache, edits, scanRun, graphRun, numRun>>

\* cache.get(&cid_clone) under the read guard, which the return on a hit or
\* the end of the block drops.
TaskLookup(i, cid) ==
    /\ TaskAt(i, cid, "cache_get")
    /\ LET t     == calls[i].tasks[cid]
           entry == IF cid \in DOMAIN content_cache THEN Some(content_cache[cid]) ELSE NoneOpt
       IN  calls' = [calls EXCEPT ![i].tasks[cid] =
              IF entry.some /\ CacheEntryValid(entry.val, t.file_meta, calls[i].scanner_hash)
              THEN [@ EXCEPT !.pc = "done", !.seen = entry, !.source = "cache",
                             !.out = Some([content |-> NoneOpt,
                                           mentions |-> entry.val.mentions]),
                             !.ops = Append(@, "cache_get"),
                             !.guards = DropGuard(@, ContentRead)]
              ELSE [@ EXCEPT !.pc = "read_file", !.seen = entry,
                             !.ops = Append(@, "cache_get"),
                             !.guards = DropGuard(@, ContentRead)]]
    /\ UNCHANGED <<metadata, files, scanner_cache, content_cache, edits, scanRun, graphRun, numRun>>

\* scan_and_cache up to the write: the scan and the word indices.
TaskScan(i, cid) ==
    /\ TaskAt(i, cid, "scan_and_cache")
    /\ LET t == calls[i].tasks[cid]
       IN  calls' = [calls EXCEPT ![i].tasks[cid] =
              [@ EXCEPT !.pc = "cache_write",
                        !.out = Some([content |-> Some(t.content),
                                      mentions |-> ScanWithWordIndex(calls[i].scanner,
                                                                     t.content)])]]
    /\ UNCHANGED <<metadata, files, scanner_cache, content_cache, edits, scanRun, graphRun, numRun>>

\* let mut cache = cache_arc.write().await
TaskWriteLock(i, cid) ==
    /\ TaskAt(i, cid, "cache_write")
    /\ CanWrite(ContentHolders(ContentRead), ContentHolders(ContentWrite))
    /\ calls' = [calls EXCEPT ![i].tasks[cid] =
                   [@ EXCEPT !.pc = "cache_insert", !.guards = @ \cup {ContentWrite}]]
    /\ UNCHANGED <<metadata, files, scanner_cache, content_cache, edits, scanRun, graphRun, numRun>>

\* cache.insert under the write guard, which the return drops.
TaskInsert(i, cid) ==
    /\ TaskAt(i, cid, "cache_insert")
    /\ LET t == calls[i].tasks[cid]
       IN  /\ content_cache' = MapPut(content_cache, cid,
                                      [len |-> t.file_meta.len,
                                       modified |-> t.file_meta.modified,
                                       scanner_hash |-> calls[i].scanner_hash,
                                       mentions |-> t.out.val.mentions])
           /\ calls' = [calls EXCEPT ![i].tasks[cid] =
                          [@ EXCEPT !.pc = "done", !.source = "scan",
                                    !.ops = Append(@, "cache_insert"),
                                    !.guards = DropGuard(@, ContentWrite)]]
    /\ UNCHANGED <<metadata, files, scanner_cache, edits, scanRun, graphRun, numRun>>

NextLock ==
    \/ \E i \in CallIds, p \in DOMAIN metadata, o \in AnalysisOptionsSet : OverlapAnalyze(i, p, o)
    \/ \E i \in CallIds : ScannerReadLock(i)
    \/ \E i \in CallIds : ScannerLookup(i)
    \/ \E i \in CallIds : ScannerTryNew(i)
    \/ \E i \in CallIds : ScannerWriteLock(i)
    \/ \E i \in CallIds : ScannerInsert(i)
    \/ \E i \in CallIds : SpawnChapterTasks(i)
    \/ \E i \in CallIds, cid \in ChapterIds : TaskGetMetadata(i, cid)
    \/ \E i \in CallIds, cid \in ChapterIds : TaskReadLock(i, cid)
    \/ \E i \in CallIds, cid \in ChapterIds : TaskLookup(i, cid)
    \/ \E i \in CallIds, cid \in ChapterIds : TaskReadFile(i, cid)
    \/ \E i \in CallIds, cid \in ChapterIds : TaskScan(i, cid)
    \/ \E i \in CallIds, cid \in ChapterIds : TaskWriteLock(i, cid)
    \/ \E i \in CallIds, cid \in ChapterIds : TaskInsert(i, cid)
    \/ \E i \in CallIds, cid \in ChapterIds : JoinNext(i, cid)
    \/ \E i \in CallIds : BuildGraph(i)

SpecLock == InitLock /\ [][NextLock]_vars

\* The steps of call i and of its chapter tasks that end at an await or at
\* the task's return: all of them but the scan and the builder.
AwaitingStep(i) ==
    \/ ScannerReadLock(i)
    \/ ScannerLookup(i)
    \/ ScannerTryNew(i)
    \/ ScannerWriteLock(i)
    \/ ScannerInsert(i)
    \/ SpawnChapterTasks(i)
    \/ \E cid \in ChapterIds : TaskGetMetadata(i, cid)
    \/ \E cid \in ChapterIds : TaskReadLock(i, cid)
    \/ \E cid \in ChapterIds : TaskLookup(i, cid)
    \/ \E cid \in ChapterIds : TaskReadFile(i, cid)
    \/ \E cid \in ChapterIds : TaskWriteLock(i, cid)
    \/ \E cid \in ChapterIds : TaskInsert(i, cid)
    \/ \E cid \in ChapterIds : JoinNext(i, cid)

\* The runtime polls a task that can make a step, and every stat and read
\* returns: while some call or chapter task can go on, one of them does.
FairScheduling == WF_vars(\E i \in CallIds : AwaitingStep(i))

\* The scan of a chapter and the builder are synchronous code with no await.
SyncStep(i) == (\E cid \in ChapterIds : TaskScan(i, cid)) \/ BuildGraph(i)

\* JoinSet::join_next has returned None: what is left of the call is the
\* builder.
JoinComplete(i) == calls[i].pc = "join" /\ JoinSetEmpty(calls[i])

\* The guards of SyncStep: a task stands at its scan, or the call at the
\* builder.
SyncReady(i) == (\E cid \in ChapterIds : TaskAt(i, cid, "scan_and_cache")) \/ JoinComplete(i)

\* A thread that has reached synchronous code runs it: weak fairness of
\* SyncStep, with the guards of the scan and of the builder written out.
SyncRuns ==
    \/ []<>(~\E i \in CallIds : SyncReady(i))
    \/ []<><<\E i \in CallIds : SyncStep(i)>>_vars

\* One character and two short chapters, one with a mention and one without.
InitLockFair ==
    /\ metadata = [p1 |-> [characters |-> RosterAlice, chapters |-> ManifestBoth]]
    /\ files = [path \in {PathOf("p1", "ch1.md"), PathOf("p1", "ch2.md")} |->
                  IF path = PathOf("p1", "ch1.md") THEN File(Alice, 1)
                  ELSE File(TextNoMention, 1)]
    /\ scanner_cache = EmptyMap
    /\ content_cache = EmptyMap
    /\ calls = [i \in CallIds |-> IdleCall]
    /\ edits = 0
    /\ scanRun = IdleScanRun
    /\ graphRun = IdleGraphRun
    /\ numRun = IdleNumRun

SpecLockFair == InitLockFair /\ [][NextLock]_vars /\ FairScheduling /\ SyncRuns

-----------------------------------------------------------------------------
(* SpecRace: the steps of SpecLock for calls restricted to chapter ch1,    *)
(* while the roster is edited between the start of one call and the start  *)
(* of the next and the file of ch1 is rewritten at any moment.             *)

\* The rosters an edit under running calls gives the project: one with a
\* different signature, and one with the signature of the first roster.
LockRosters == {RosterAlice, RosterAliCeBob}

InitRace ==
    /\ metadata = [p1 |-> [characters |-> RosterAliceBob, chapters |-> ManifestBoth]]
    /\ files = [path \in {PathOf("p1", "ch1.md"), PathOf("p1", "ch2.md")} |->
                  IF path = PathOf("p1", "ch1.md") THEN File(TextAliceBobAlice, 1)
                  ELSE File(TextNoMention, 1)]
    /\ scanner_cache = EmptyMap
    /\ content_cache = EmptyMap
    /\ calls = [i \in CallIds |-> IdleCall]
    /\ edits = 0
    /\ scanRun = IdleScanRun
    /\ graphRun = IdleGraphRun
    /\ numRun = IdleNumRun

\* The texts written to ch1.md: one of the size of the first, one longer.
RaceTexts == {TextAliceAliceBob, TextAliceFarBob}

\* The options of the calls: the narrow window, chapter ch1 only.
RaceOptions == AnalysisOptions(2, DefaultPruneThreshold, Some({"ch1"}))

\* The roster is edited while a call may be running; a call borrows the
\* metadata it was given, so the edit is seen by the calls made after it.
EditRosterBetweenCalls(p, characters) ==
    /\ \E i \in CallIds : calls[i].pc = "idle"
    /\ edits < MaxEdits
    /\ characters # metadata[p].characters
    /\ metadata' = [metadata EXCEPT ![p].characters = characters]
    /\ edits' = edits + 1
    /\ UNCHANGED <<files, scanner_cache, content_cache, calls, scanRun, graphRun, numRun>>

\* A chapter file is written (save_chapter or any other writer) while calls
\* may be running: the modification time, in whole seconds, stays or
\* advances.
WriteFileUnderCalls(path, content, modified) ==
    /\ edits < MaxEdits
    /\ modified \in {files[path].modified, files[path].modified + 1}
    /\ File(content, modified) # files[path]
    /\ files' = [files EXCEPT ![path] = File(content, modified)]
    /\ edits' = edits + 1
    /\ UNCHANGED <<metadata, scanner_cache, content_cache, calls, scanRun, graphRun, numRun>>

NextRace ==
    \/ \E i \in CallIds, p \in DOMAIN metadata : OverlapAnalyze(i, p, RaceOptions)
    \/ \E i \in CallIds : ScannerReadLock(i)
    \/ \E i \in CallIds : ScannerLookup(i)
    \/ \E i \in CallIds : ScannerTryNew(i)
    \/ \E i \in CallIds : ScannerWriteLock(i)
    \/ \E i \in CallIds : ScannerInsert(i)
    \/ \E i \in CallIds : SpawnChapterTasks(i)
    \/ \E i \in CallIds, cid \in ChapterIds : TaskGetMetadata(i, cid)
    \/ \E i \in CallIds, cid \in ChapterIds : TaskReadLock(i, cid)
    \/ \E i \in CallIds, cid \in ChapterIds : TaskLookup(i, cid)
    \/ \E i \in CallIds, cid \in ChapterIds : TaskReadFile(i, cid)
    \/ \E i \in CallIds, cid \in ChapterIds : TaskScan(i, cid)
    \/ \E i \in CallIds, cid \in ChapterIds : TaskWriteLock(i, cid)
    \/ \E i \in CallIds, cid \in ChapterIds : TaskInsert(i, cid)
    \/ \E i \in CallIds, cid \in ChapterIds : JoinNext(i, cid)
    \/ \E i \in CallIds : BuildGraph(i)
    \/ \E p \in DOMAIN metadata, r \in LockRosters : EditRosterBetweenCalls(p, r)
    \/ \E c \in RaceTexts, m \in 0..(MaxEdits + 1) :
          WriteFileUnderCalls(PathOf("p1", "ch1.md"), c, m)

SpecRace == InitRace /\ [][NextRace]_vars

-----------------------------------------------------------------------------
(* SpecBuild: get_or_create_scanner called on its own, so that it is given *)
(* every roster, the empty one too, which analyze_project answers at its   *)
(* step 1 without a scanner.  The stores hold what earlier calls left.     *)

\* A character with an empty name and a blank alias.
RosterNameless == <<Character("u1", <<>>, <<(<<" ">>)>>, "Protagonist")>>

BuildRosters == {<<>>, RosterNameless, RosterAlice, RosterAliceBob}

\* The scanner store after a call on RosterAlice.
ScannerStoreOfAlice ==
    [p1 |-> [hash |-> RosterSignature(RosterAlice), scanner |-> TryNew(RosterAlice).scanner]]

\* The mention store after the scan of a chapter "Alice" by that scanner.
MentionStoreOfAlice ==
    [ch1 |-> [len |-> Len(Alice), modified |-> 1,
              scanner_hash |-> RosterSignature(RosterAlice),
              mentions |-> ScanWithWordIndex(TryNew(RosterAlice).scanner, Alice)]]

InitBuild ==
    /\ metadata \in {[p1 |-> [characters |-> r, chapters |-> ManifestOne]] : r \in BuildRosters}
    /\ files = [path \in {PathOf("p1", "ch1.md")} |-> File(Alice, 1)]
    /\ scanner_cache \in {EmptyMap, ScannerStoreOfAlice}
    /\ content_cache \in {EmptyMap, MentionStoreOfAlice}
    /\ calls = [i \in CallIds |-> IdleCall]
    /\ edits = 0
    /\ scanRun = IdleScanRun
    /\ graphRun = IdleGraphRun
    /\ numRun = IdleNumRun

\* get_or_create_scanner has returned its scanner, or its error.
ScannerCallOver(i) == calls[i].pc \in {"process_chapters", "returned"}

\* get_or_create_scanner(project_id, metadata), once the call before it is over.
CallGetOrCreateScanner(i, p) ==
    /\ calls[i].pc = "idle"
    /\ \A j \in CallIds : j < i => ScannerCallOver(j)
    /\ calls' = [calls EXCEPT ![i] =
                   [IdleCall EXCEPT !.pc = "get_or_create_scanner", !.project_id = p,
                                    !.characters = metadata[p].characters,
                                    !.store_at_start = content_cache]]
    /\ UNCHANGED <<metadata, files, scanner_cache, content_cache, edits, scanRun, graphRun, numRun>>

NextBuild ==
    \/ \E i \in CallIds, p \in DOMAIN metadata : CallGetOrCreateScanner(i, p)
    \/ \E i \in CallIds : ScannerOptimisticRead(i)
    \/ \E i \in CallIds : ScannerRebuild(i)
    \/ \E p \in DOMAIN metadata, r \in BuildRosters : EditRosterBetweenCalls(p, r)

SpecBuild == InitBuild /\ [][NextBuild]_vars

-----------------------------------------------------------------------------
(* Properties of the scanner, checked under SpecScan.                      *)

Scanned == scanRun.pc = "scanned"

\* C7: a mention that comes from a name or an alias has no alphanumeric
\* character and no underscore immediately before or immediately after the
\* occurrence; every mention is at the start of the match it comes from and
\* carries the id of that match's character; alias "Bob" on "Bobby is not
\* Bob" gives exactly one mention, at offset 13.
C7_WordBoundary ==
    Scanned =>
      /\ Len(scanRun.mentions) = Len(scanRun.matches)
      /\ \A k \in DOMAIN scanRun.matches :
           LET m == scanRun.matches[k]
               p == scanRun.scanner.patterns[m.pattern]
           IN  /\ scanRun.mentions[k].offset = m.start
               /\ scanRun.mentions[k].id = scanRun.characters[p.char_idx + 1].id
               /\ MatchesAt(scanRun.text, p.pat, m.start)
               /\ m.end = m.start + Len(p.pat)
               /\ p.requires_boundary =>
                    /\ m.start > 0 =>
                         scanRun.text[m.start] \notin
                           Range(UpperLetters) \cup Range(LowerLetters) \cup Digits \cup {"_"}
                    /\ m.end < Len(scanRun.text) =>
                         scanRun.text[m.end + 1] \notin
                           Range(UpperLetters) \cup Range(LowerLetters) \cup Digits \cup {"_"}
      /\ (scanRun.characters = RosterRobert /\ scanRun.text = TextBobbyIsNotBob)
            => scanRun.mentions = <<[offset |-> 13, id |-> "u1"]>>

\* "Bobby is not Bob" scanned for Robert alias Bob: the occurrence inside
\* "Bobby" was passed over and the one at the end reported.
C7_Witness ==
    /\ Scanned
    /\ scanRun.characters = RosterRobert
    /\ scanRun.text = TextBobbyIsNotBob
    /\ Len(scanRun.mentions) = 1

\* C8: the mentions of a scan are in strictly ascending offset order; the
\* matches they come from do not overlap; no pattern that matches at the
\* start of such a match is longer than the match; "Christopher" scanned for
\* Chris and Christopher gives one mention, of Christopher; "Bobby" scanned
\* for aliases Bob and Bobby gives one mention.
C8_AscendingLongest ==
    Scanned =>
      /\ \A k \in 1..(Len(scanRun.mentions) - 1) :
           scanRun.mentions[k].offset < scanRun.mentions[k + 1].offset
      /\ \A k \in 1..(Len(scanRun.matches) - 1) :
           scanRun.matches[k].end <= scanRun.matches[k + 1].start
      /\ \A k \in DOMAIN scanRun.matches :
           \A j \in DOMAIN scanRun.scanner.patterns :
              MatchesAt(scanRun.text, scanRun.scanner.patterns[j].pat,
                        scanRun.matches[k].start)
                => Len(scanRun.scanner.patterns[j].pat)
                     <= scanRun.matches[k].end - scanRun.matches[k].start
      /\ (scanRun.characters = RosterChris /\ scanRun.text = Christopher)
            => scanRun.mentions = <<[offset |-> 0, id |-> "u2"]>>
      /\ (scanRun.characters = RosterRobertBobby /\ scanRun.text = Bobby)
            => Len(scanRun.mentions) = 1

\* "Christopher" scanned for Chris and Christopher: two names match at
\* offset 0 and one mention came out.
C8_Witness ==
    /\ Scanned
    /\ scanRun.characters = RosterChris
    /\ scanRun.text = Christopher
    /\ Len(scanRun.mentions) = 1

-----------------------------------------------------------------------------
(* Properties of the graph builder, checked under SpecGraph.               *)

Built == graphRun.pc = "built" /\ graphRun.result.ok

\* The mentions of character id in one chapter's mention list.
MentionsIn(mentions, id) == Cardinality({k \in DOMAIN mentions : mentions[k].id = id})

RECURSIVE TotalMentions(_, _, _)
TotalMentions(chapter_mentions, chapter_ids, id) ==
    IF chapter_ids = {} THEN 0
    ELSE LET cid == CHOOSE c \in chapter_ids : TRUE
         IN  MentionsIn(chapter_mentions[cid], id)
             + TotalMentions(chapter_mentions, chapter_ids \ {cid}, id)

GraphTotal(id) ==
    TotalMentions(graphRun.chapter_mentions, DOMAIN graphRun.chapter_mentions, id)

EdgesBetween(edges, a, b) ==
    {k \in DOMAIN edges : {edges[k].source, edges[k].target} = {a, b}}

EdgesAt(edges, a) == {k \in DOMAIN edges : a \in {edges[k].source, edges[k].target}}

SharedChapters(chapter_mentions, a, b) ==
    {cid \in DOMAIN chapter_mentions :
       MentionsIn(chapter_mentions[cid], a) > 0 /\ MentionsIn(chapter_mentions[cid], b) > 0}

\* C4: with prune_threshold <= 1.0, two distinct roster characters that are
\* both mentioned in one analyzed chapter have exactly one edge between
\* them, of weight >= 1.0 and kind CoPresence, whatever the word distance
\* between their mentions and whatever the proximity window.
C4_CoPresencePerChapter ==
    (Built /\ ~F32Lt(F32One, graphRun.prune_threshold)) =>
      \A i \in DOMAIN graphRun.characters : \A j \in DOMAIN graphRun.characters :
         (i < j /\ SharedChapters(graphRun.chapter_mentions, graphRun.characters[i].id,
                                  graphRun.characters[j].id) # {})
           => LET edges   == graphRun.result.val.edges
                  between == EdgesBetween(edges, graphRun.characters[i].id,
                                          graphRun.characters[j].id)
              IN  /\ Cardinality(between) = 1
                  /\ \A k \in between :
                       /\ ~F32Lt(edges[k].weight, F32One)
                       /\ edges[k].interaction_type = "CoPresence"

\* C9: the payload has one node per roster character, in roster order, with
\* that character's id and name; its mention_count is the number of mentions
\* of the character in all analyzed chapters together, and is_mapped holds
\* exactly when that number is positive.
C9_NodePerCharacter ==
    Built =>
      LET nodes == graphRun.result.val.nodes
      IN  /\ Len(nodes) = Len(graphRun.characters)
          /\ \A i \in DOMAIN graphRun.characters :
               /\ nodes[i].id = graphRun.characters[i].id
               /\ nodes[i].label = graphRun.characters[i].name
               /\ nodes[i].mention_count = GraphTotal(graphRun.characters[i].id)
               /\ nodes[i].is_mapped <=> nodes[i].mention_count > 0

\* A graph of two chapters that both mention one character, next to a
\* character no chapter mentions.
C9_Witness ==
    /\ Built
    /\ \E i \in DOMAIN graphRun.characters :
          /\ \A cid \in {"ch1", "ch2"} :
                /\ cid \in DOMAIN graphRun.chapter_mentions
                /\ MentionsIn(graphRun.chapter_mentions[cid], graphRun.characters[i].id) > 0
          /\ graphRun.result.val.nodes[i].mention_count >= 3
    /\ \E i \in DOMAIN graphRun.characters : ~graphRun.result.val.nodes[i].is_mapped

\* C10: a roster character that no analyzed chapter mentions has
\* mention_count 0, is not mapped, has valence 0 and no first_mention, and no
\* edge starts or ends at it; a graph built from no chapter at all has one
\* unmapped node per roster character and no edge.
C10_UnmentionedCharacter ==
    Built =>
      LET nodes == graphRun.result.val.nodes
          edges == graphRun.result.val.edges
      IN  /\ \A i \in DOMAIN graphRun.characters :
               GraphTotal(graphRun.characters[i].id) = 0
                 => /\ nodes[i].mention_count = 0
                    /\ ~nodes[i].is_mapped
                    /\ nodes[i].valence = F32Zero
                    /\ ~nodes[i].first_mention.some
                    /\ EdgesAt(edges, graphRun.characters[i].id) = {}
          /\ graphRun.contents = EmptyMap
               => /\ Len(nodes) = Len(graphRun.characters)
                  /\ \A i \in DOMAIN nodes : ~nodes[i].is_mapped
                  /\ edges = <<>>

\* A graph with an edge between two characters and a third character that
\* no chapter mentions.
C10_Witness ==
    /\ Built
    /\ graphRun.result.val.edges # <<>>
    /\ \E i \in DOMAIN graphRun.characters :
          /\ GraphTotal(graphRun.characters[i].id) = 0
          /\ graphRun.result.val.nodes[i].mention_count = 0

-----------------------------------------------------------------------------
(* Properties of the valence, of the proximity bonus, of the edges and of  *)
(* the metrics, checked under SpecNum.                                     *)

NodesBuilt == numRun.pc = "nodes_built"

\* The rank of a role: Protagonist highest, Extra lowest.
RoleRank(role) ==
    CASE role = "Protagonist" -> 4
      [] role = "Antagonist"  -> 3
      [] role = "Secondary"   -> 2
      [] role = "Extra"       -> 1

\* The role weights in tenths: 2.0, 1.8, 1.5, 1.0.
RoleTenths(role) ==
    CASE role = "Protagonist" -> 20
      [] role = "Antagonist"  -> 18
      [] role = "Secondary"   -> 15
      [] role = "Extra"       -> 10

\* The natural logarithm of 1 .. 12 in thousandths, rounded down.
LnThousandths == <<0, 693, 1098, 1386, 1609, 1791, 1945, 2079, 2197, 2302, 2397, 2484>>

\* The f32 x lies between lo / 10000 and hi / 10000, to the 14 leading bits
\* of its significand.
F32Within(x, lo, hi) ==
    IF x.m = 0 THEN lo = 0
    ELSE LET lead  == x.m \div Pow2(10)
             scale == Pow2(0 - (x.e + 10))
         IN  /\ (lead + 1) * 10000 >= lo * scale
             /\ lead * 10000 <= hi * scale

\* C12: the valence of a node is ln(1 + count) times the weight of the
\* character's role, the weights being 2.0 > 1.8 > 1.5 > 1.0 for
\* Protagonist > Antagonist > Secondary > Extra; of two characters of one
\* role the one with more mentions has the strictly higher valence; of two
\* characters with one positive count the one of higher role has the
\* strictly higher valence; a Protagonist with 2 mentions has a strictly
\* higher valence than an Extra with 1 mention.
C12_Valence ==
    NodesBuilt =>
      LET a == numRun.nodes[1]
          b == numRun.nodes[2]
          role_a == numRun.characters[1].role
          role_b == numRun.characters[2].role
      IN  /\ \A k \in DOMAIN numRun.nodes :
                /\ numRun.nodes[k].mention_count = numRun.mention_counts[k]
                /\ F32Within(numRun.nodes[k].valence,
                             LnThousandths[1 + numRun.mention_counts[k]]
                               * RoleTenths(numRun.characters[k].role),
                             (LnThousandths[1 + numRun.mention_counts[k]] + 1)
                               * RoleTenths(numRun.characters[k].role))
          /\ (role_a = role_b /\ a.mention_count < b.mention_count)
                => F32Lt(a.valence, b.valence)
          /\ (a.mention_count = b.mention_count /\ a.mention_count > 0
                /\ RoleRank(role_a) < RoleRank(role_b))
                => F32Lt(a.valence, b.valence)
          /\ (role_a = "Protagonist" /\ a.mention_count = 2
                /\ role_b = "Extra" /\ b.mention_count = 1)
                => F32Lt(b.valence, a.valence)

\* The nodes of a Protagonist with 2 mentions and an Extra with 1 mention.
C12_Witness ==
    /\ NodesBuilt
    /\ numRun.characters[1].role = "Protagonist" /\ numRun.nodes[1].mention_count = 2
    /\ numRun.characters[2].role = "Extra" /\ numRun.nodes[2].mention_count = 1
    /\ F32Lt(numRun.nodes[2].valence, numRun.nodes[1].valence)

BonusComputed == numRun.pc = "bonus_computed"

\* C13: the bonus of word distance d in window w is 0 when d = 0 or d > w;
\* when 1 <= d <= w it is positive and is 0.1 * w / d; of two distances
\* inside the window the larger has the strictly smaller bonus; in window
\* 50 the bonus of distance 5 is above that of distance 10, which is above
\* 0, and the bonus of distance 100 is 0.
C13_ProximityBonus ==
    BonusComputed =>
      LET w  == numRun.proximity_window
          da == numRun.word_distances[1]
          db == numRun.word_distances[2]
      IN  /\ \A k \in DOMAIN numRun.bonuses :
                LET d == numRun.word_distances[k]
                IN  IF d = 0 \/ d > w
                    THEN numRun.bonuses[k] = F32Zero
                    ELSE /\ F32Lt(F32Zero, numRun.bonuses[k])
                         /\ F32Within(numRun.bonuses[k], (1000 * w) \div d,
                                      (1000 * w) \div d + 1)
          /\ (1 <= da /\ da < db /\ db <= w)
                => F32Lt(numRun.bonuses[2], numRun.bonuses[1])
          /\ (w = 50 /\ da = 5 /\ db = 10)
                => F32Lt(numRun.bonuses[2], numRun.bonuses[1])
                   /\ F32Lt(F32Zero, numRun.bonuses[2])
          /\ (w = 50 /\ da = 100) => numRun.bonuses[1] = F32Zero

\* The bonuses of distance 100, outside window 50, and of distance 10,
\* inside it.
C13_Witness ==
    /\ BonusComputed
    /\ numRun.proximity_window = 50
    /\ numRun.word_distances = <<100, 10>>
    /\ numRun.bonuses[1] = F32Zero
    /\ F32Lt(F32Zero, numRun.bonuses[2])

MetricsBuilt == numRun.pc = "metrics_built"

RosterIds(characters) == {characters[i].id : i \in DOMAIN characters}

\* The ids one edge away from the ids of S, and S.
Grow(edges, S) ==
    S \cup {edges[k].target : k \in {j \in DOMAIN edges : edges[j].source \in S}}
      \cup {edges[k].source : k \in {j \in DOMAIN edges : edges[j].target \in S}}

\* The ids that a path of edges joins to an id of S.
RECURSIVE Reach(_, _)
Reach(edges, S) == IF Grow(edges, S) = S THEN S ELSE Reach(edges, Grow(edges, S))

\* The connected components of the graph on ids with the given edges.
GraphComponents(ids, edges) == {Reach(edges, {a}) : a \in ids}

RECURSIVE SumOver(_, _)
SumOver(f, D) ==
    IF D = {} THEN 0
    ELSE LET x == CHOOSE y \in D : TRUE IN f[x] + SumOver(f, D \ {x})

\* The weight of the pair key is not below the threshold.
Retained(key) == ~F32Lt(numRun.weight_matrix[key], numRun.prune_threshold)

\* The roster positions that are in no pair at or above the threshold.
Unpaired ==
    {i \in DOMAIN numRun.characters :
       \A key \in DOMAIN numRun.weight_matrix : Retained(key) => (i - 1) \notin Range(key)}

\* C11: every edge of the payload is the edge of one pair of the weight
\* matrix, carries that pair's accumulated weight, and the weight is not
\* below prune_threshold; a pair whose accumulated weight is not below the
\* threshold has exactly one edge, a pair below it has none; the characters
\* whose pairs are all below the threshold count as isolated, and when every
\* pair is below it each character is a component of its own.
C11_EdgePruning ==
    MetricsBuilt =>
      LET chars == numRun.characters
          wm    == numRun.weight_matrix
          edges == numRun.payload.edges
          m     == numRun.payload.metrics
      IN  /\ \A k \in DOMAIN edges :
                /\ ~F32Lt(edges[k].weight, numRun.prune_threshold)
                /\ \E key \in DOMAIN wm :
                      /\ edges[k].source = chars[key[1] + 1].id
                      /\ edges[k].target = chars[key[2] + 1].id
                      /\ edges[k].weight = wm[key]
          /\ \A key \in AllPairs(Len(chars)) :
                LET between == EdgesBetween(edges, chars[key[1] + 1].id, chars[key[2] + 1].id)
                IN  IF key \in DOMAIN wm /\ Retained(key)
                    THEN Cardinality(between) = 1
                    ELSE between = {}
          /\ m.isolation_ratio
                = F32Div(F32FromInt(Cardinality(Unpaired)), F32FromInt(Len(chars)))
          /\ Unpaired = DOMAIN chars
                => /\ m.connected_components = Len(chars)
                   /\ m.largest_component_size = 1
                   /\ m.network_density = F32Zero

\* Threshold 1.0: a pair of weight 0.0 was dropped and a pair of weight 1.0,
\* equal to the threshold, became an edge.
C11_Witness ==
    /\ MetricsBuilt
    /\ numRun.prune_threshold = F32One
    /\ \E key \in DOMAIN numRun.weight_matrix : ~Retained(key)
    /\ \E k \in DOMAIN numRun.payload.edges :
          numRun.payload.edges[k].weight = numRun.prune_threshold

\* C14: connected_components is the number of connected components of the
\* graph whose vertices are the roster characters and whose edges are the
\* returned edges, a character without edge being a component of its own;
\* largest_component_size is the size of the largest of them; the builder's
\* component sizes are the sizes of these components and sum to the roster
\* size.
C14_Components ==
    MetricsBuilt =>
      LET ids   == RosterIds(numRun.characters)
          edges == numRun.payload.edges
          comps == GraphComponents(ids, edges)
          m     == numRun.payload.metrics
          sizes == numRun.component_sizes
      IN  /\ m.connected_components = Cardinality(comps)
          /\ m.largest_component_size = SetMax({Cardinality(c) : c \in comps})
          /\ \A a \in ids : EdgesAt(edges, a) = {} => {a} \in comps
          /\ \A k \in 1..Len(numRun.characters) :
                Cardinality({r \in DOMAIN sizes : sizes[r] = k})
                  = Cardinality({c \in comps : Cardinality(c) = k})
          /\ SumOver(sizes, DOMAIN sizes) = Len(numRun.characters)

\* Four characters: two kept pairs join three of them, and the pair that
\* would have joined the fourth was dropped.
C14_Witness ==
    /\ MetricsBuilt
    /\ Len(numRun.characters) = 4
    /\ Len(numRun.payload.edges) = 2
    /\ numRun.payload.metrics.connected_components = 2
    /\ numRun.payload.metrics.largest_component_size = 3
    /\ \E key \in DOMAIN numRun.weight_matrix :
          F32Lt(numRun.weight_matrix[key], numRun.prune_threshold)

\* C15: network_density is the number of returned edges divided by
\* n * (n - 1) / 2 for a roster of n characters, the divisor being 1 when
\* n = 1; it is never below 0 and never above 1; for a roster of one
\* character it is 0.
C15_Density ==
    MetricsBuilt =>
      LET n         == Len(numRun.characters)
          n_edges   == Len(numRun.payload.edges)
          max_edges == IF n = 1 THEN 1 ELSE (n * (n - 1)) \div 2
          density   == numRun.payload.metrics.network_density
      IN  /\ n_edges <= max_edges
          /\ F32Within(density, (10000 * n_edges) \div max_edges,
                       (10000 * n_edges) \div max_edges + 1)
          /\ n_edges = max_edges => density = F32One
          /\ ~F32Lt(density, F32Zero)
          /\ ~F32Lt(F32One, density)
          /\ n = 1 => density = F32Zero

\* Four characters and three returned edges: half of the six possible.
C15_Witness ==
    /\ MetricsBuilt
    /\ Len(numRun.characters) = 4
    /\ Len(numRun.payload.edges) = 3
    /\ numRun.payload.metrics.network_density = F32Div(F32One, F32FromInt(2))

\* The roster characters at which no returned edge starts or ends.
IsolatedIds == {a \in RosterIds(numRun.characters) : EdgesAt(numRun.payload.edges, a) = {}}

\* C16: isolation_ratio is the number of roster characters that are the
\* endpoint of no returned edge, divided by the roster size; that number is
\* the number of components of size 1 the union-find reports.
C16_Isolation ==
    MetricsBuilt =>
      LET n     == Len(numRun.characters)
          ratio == numRun.payload.metrics.isolation_ratio
          sizes == numRun.component_sizes
      IN  /\ F32Within(ratio, (10000 * Cardinality(IsolatedIds)) \div n,
                       (10000 * Cardinality(IsolatedIds)) \div n + 1)
          /\ Cardinality(IsolatedIds) = n => ratio = F32One
          /\ Cardinality(IsolatedIds) = Cardinality({r \in DOMAIN sizes : sizes[r] = 1})

\* Three characters, one returned edge: one character of three is isolated,
\* and its pair with another character was dropped.
C16_Witness ==
    /\ MetricsBuilt
    /\ Len(numRun.characters) = 3
    /\ Len(numRun.payload.edges) = 1
    /\ Cardinality(IsolatedIds) = 1
    /\ Cardinality(DOMAIN numRun.weight_matrix) = 2
    /\ numRun.payload.metrics.isolation_ratio = F32Div(F32One, F32FromInt(3))

-----------------------------------------------------------------------------
(* Properties of the coordinator, checked under Spec.                      *)

Returned(i) == calls[i].pc = "returned"

\* The call analysed a roster from which a scanner can be built.
HasScanner(i) == calls[i].characters # <<>> /\ TryNew(calls[i].characters).ok

MentionCounts(payload) == [k \in DOMAIN payload.nodes |-> payload.nodes[k].mention_count]

SamePayload(a, b) ==
    /\ a.nodes = b.nodes
    /\ Range(a.edges) = Range(b.edges)
    /\ a.metrics = b.metrics

\* Every chapter file has the size and modification time in fs2 that it has
\* in fs1, or is missing in both.
SameStats(fs1, fs2) == \A path \in DOMAIN fs1 : get_metadata(fs1[path]) = get_metadata(fs2[path])

\* C1: when a call on a non-empty roster has returned a payload and the next
\* call analyses the same project with the same roster, chapter list and
\* options, every chapter file having kept its size and modification time,
\* the next call returns a payload with the same nodes, edges and metrics.
C1_Idempotence ==
    \A i \in CallIds : \A j \in CallIds :
       ( /\ j = i + 1
         /\ Returned(i) /\ Returned(j)
         /\ HasScanner(i)
         /\ calls[i].result.ok
         /\ calls[j].project_id = calls[i].project_id
         /\ calls[j].characters = calls[i].characters
         /\ calls[j].chapters = calls[i].chapters
         /\ calls[j].options = calls[i].options
         /\ SameStats(calls[i].files_at_start, calls[i].files_at_return)
         /\ SameStats(calls[i].files_at_return, calls[j].files_at_start) )
       => /\ calls[j].result.ok
          /\ SamePayload(calls[i].result.val, calls[j].result.val)

\* C2: a call on a non-empty roster from which a scanner can be built
\* returns a payload, never an error.
C2_OnlyScannerBuildFails ==
    \A i \in CallIds : (Returned(i) /\ HasScanner(i)) => calls[i].result.ok

\* C3: the payload a call returned has the mention counts, the set of edges
\* (weights included) and the metrics that the builder gives for every
\* order in which it can iterate the call's chapters and its pairs.
C3_OrderIndependent ==
    \A i \in CallIds :
       (Returned(i) /\ HasScanner(i) /\ calls[i].result.ok) =>
          \A chapter_order \in Orders(DOMAIN calls[i].chapter_mentions) :
          \A pair_order \in Orders(AllPairs(Len(calls[i].characters))) :
             LET r == build_character_graph_cached(
                         calls[i].characters, calls[i].chapter_texts,
                         calls[i].chapter_mentions, calls[i].options.proximity_window,
                         calls[i].options.prune_threshold, chapter_order, pair_order)
             IN  /\ r.ok
                 /\ MentionCounts(r.val) = MentionCounts(calls[i].result.val)
                 /\ Range(r.val.edges) = Range(calls[i].result.val.edges)
                 /\ r.val.metrics = calls[i].result.val.metrics

\* The task has made its lookup in the mention store.
LookedUp(t) ==
    \/ t.pc \in {"read_file", "scan_and_cache"}
    \/ t.pc = "done" /\ t.source # "stat_failed"

\* The entry the task found has the size and modification time of the
\* chapter file and the signature of the roster of the call.
EntryMatches(call, t) ==
    /\ t.seen.some
    /\ t.seen.val.len = Len(call.files_at_start[t.path].content)
    /\ t.seen.val.modified = call.files_at_start[t.path].modified
    /\ t.seen.val.scanner_hash = RosterSignature(call.characters)

\* C5: while a call processes its chapters, a chapter task takes its
\* mentions from the mention store exactly when the entry it found has the
\* file's size, the file's modification time and the signature of the
\* call's roster, and then it returns the stored mentions; with no entry, or
\* an entry that differs in one of the three, the task goes on to read the
\* file, and what it returns on a successful read is the scan of the file's
\* content with the scanner of the call's roster.
C5_MentionStoreValidity ==
    \A i \in CallIds : \A cid \in DOMAIN calls[i].tasks :
       LET call == calls[i]
           t    == call.tasks[cid]
       IN  (call.pc = "join" /\ LookedUp(t)) =>
             /\ EntryMatches(call, t) =>
                  /\ t.pc = "done" /\ t.source = "cache"
                  /\ t.out = Some([content |-> NoneOpt, mentions |-> t.seen.val.mentions])
             /\ ~EntryMatches(call, t) =>
                  /\ t.source # "cache"
                  /\ (t.pc = "done" /\ t.source # "read_failed") =>
                       /\ t.out.some /\ t.out.val.content.some
                       /\ t.out.val.content.val = call.files_at_start[t.path].content
                       /\ t.out.val.mentions =
                            ScanWithWordIndex(TryNew(call.characters).scanner,
                                              call.files_at_start[t.path].content)

\* A call in which one chapter was served from the mention store and another
\* was rescanned because its entry no longer matched.
C5_Witness ==
    \E i \in CallIds : \E c1 \in DOMAIN calls[i].tasks : \E c2 \in DOMAIN calls[i].tasks :
       /\ calls[i].tasks[c1].source = "cache"
       /\ calls[i].tasks[c2].source = "scan"
       /\ calls[i].tasks[c2].seen.some

\* C6: a call on an empty roster returns a payload, not an error, with no
\* node, no edge, density 0, 0 connected components, largest component 0 and
\* isolation ratio 0.
C6_EmptyRoster ==
    \A i \in CallIds :
       (Returned(i) /\ calls[i].characters = <<>>) =>
          /\ calls[i].result.ok
          /\ calls[i].result.val.nodes = <<>>
          /\ calls[i].result.val.edges = <<>>
          /\ calls[i].result.val.metrics =
               [network_density |-> F32Zero, connected_components |-> 0,
                largest_component_size |-> 0, isolation_ratio |-> F32Zero]

\* A call on an empty roster returned while both stores held entries of an
\* earlier call.
C6_Witness ==
    \E i \in CallIds :
       /\ Returned(i)
       /\ calls[i].characters = <<>>
       /\ calls[i].chapters # <<>>
       /\ scanner_cache # EmptyMap
       /\ content_cache # EmptyMap

-----------------------------------------------------------------------------
(* The chapter filter, the mention store and the chapter tasks, checked    *)
(* under Spec.                                                             *)

Filtered(i) == calls[i].pc # "idle" /\ calls[i].options.chapter_filter.some

ManifestIds(chapters) == {chapters[k].id : k \in DOMAIN chapters}

\* The mention-store entry of a chapter, if there is one.
EntryOf(store, cid) == IF cid \in DOMAIN store THEN Some(store[cid]) ELSE NoneOpt

\* A call with a filter has tasks, and so stats, reads and scans, for the
\* manifest chapters of the filter only, joins mentions and texts of such
\* chapters only, and the payload counts the mentions of such chapters only.
FilterRestrictsCall ==
    \A i \in CallIds :
       Filtered(i) =>
         LET call   == calls[i]
             filter == call.options.chapter_filter.val
         IN  /\ DOMAIN call.tasks \subseteq filter \cap ManifestIds(call.chapters)
             /\ DOMAIN call.chapter_mentions \subseteq filter
             /\ DOMAIN call.chapter_texts \subseteq filter
             /\ (Returned(i) /\ HasScanner(i))
                   => DOMAIN call.tasks =
                        {cid \in filter \cap ManifestIds(call.chapters) :
                           resolve_chapter_path(call.project_id, call.chapters, cid).ok}
             /\ (Returned(i) /\ call.result.ok)
                   => \A k \in DOMAIN call.result.val.nodes :
                        call.result.val.nodes[k].mention_count
                          = TotalMentions(call.chapter_mentions,
                                          DOMAIN call.chapter_mentions \cap filter,
                                          call.characters[k].id)

\* While a call with a filter runs, the mention-store entry of a chapter
\* outside the filter stays as it is.
FilterKeepsOtherEntries ==
    \A i \in CallIds :
       (InFlight(i) /\ calls[i].options.chapter_filter.some) =>
          \A cid \in ChapterIds \ calls[i].options.chapter_filter.val :
             EntryOf(content_cache', cid) = EntryOf(content_cache, cid)

\* C17: with a chapter_filter, only the manifest chapters whose id is in the
\* filter are stat'ed, read, scanned and counted in the graph; a chapter
\* outside the filter adds no mention, and the call leaves its mention-store
\* entry unchanged.
C17_ChapterFilter == []FilterRestrictsCall /\ [][FilterKeepsOtherEntries]_vars

\* A call filtered to ch1 returned a payload that counts ch1 only, while
\* ch2, which has mentions, kept the entry an earlier call had stored.
C17_Witness ==
    \E i \in CallIds :
       /\ Returned(i) /\ calls[i].result.ok
       /\ calls[i].options.chapter_filter = Some({"ch1"})
       /\ "ch2" \in ManifestIds(calls[i].chapters)
       /\ "ch2" \in DOMAIN content_cache
       /\ content_cache["ch2"].mentions # <<>>
       /\ DOMAIN calls[i].tasks = {"ch1"}
       /\ calls[i].tasks["ch1"].source = "scan"

\* C18: every node of the payload a call returned has the first_mention
\* (chapter id and character offset) that the builder reports for every
\* order in which it can meet the call's chapters.
C18_FirstMentionOrderIndependent ==
    \A i \in CallIds :
       (Returned(i) /\ HasScanner(i) /\ calls[i].result.ok) =>
          \A chapter_order \in Orders(DOMAIN calls[i].chapter_mentions) :
             LET st == GraphAccumulate(calls[i].characters, calls[i].chapter_texts,
                                       calls[i].chapter_mentions,
                                       calls[i].options.proximity_window, chapter_order)
             IN  \A k \in DOMAIN calls[i].characters :
                    st.first_mentions[k] = calls[i].result.val.nodes[k].first_mention

\* The task missed the mention store, read its file and has completed.
MissedAndRead(t) == t.pc = "done" /\ t.source \in {"scan", "empty"}

\* C19: once a chapter task that missed the mention store and read its file
\* has completed, the store holds for the chapter the entry made of the size
\* and modification time of the task's stat, the scanner signature of the
\* call and the mentions the task computed, whatever content was read; an
\* earlier entry of the chapter is gone.
C19_WriteBackOnMiss ==
    \A i \in CallIds : \A cid \in DOMAIN calls[i].tasks :
       LET call == calls[i]
           t    == call.tasks[cid]
       IN  (call.pc = "join" /\ MissedAndRead(t)) =>
             /\ cid \in DOMAIN content_cache
             /\ content_cache[cid] = [len |-> t.file_meta.len,
                                      modified |-> t.file_meta.modified,
                                      scanner_hash |-> call.scanner_hash,
                                      mentions |-> t.out.val.mentions]

\* The positions in the task's list of calls at which it made the call op.
OpsAt(t, op) == {k \in DOMAIN t.ops : t.ops[k] = op}

\* C20: a chapter task makes its stat call first and once: its lookup in
\* the mention store and its read of the file come after the stat, the read
\* after the lookup; a task whose lookup was a hit has read no file, has
\* written nothing to the store, and returns the mention list of the stored
\* entry with no content.
C20_MetadataFirst ==
    \A i \in CallIds : \A cid \in DOMAIN calls[i].tasks :
       LET t == calls[i].tasks[cid]
       IN  /\ t.ops # <<>> => OpsAt(t, "get_metadata") = {1}
           /\ OpsAt(t, "cache_get") \subseteq {2}
           /\ OpsAt(t, "read_file") \subseteq {3}
           /\ t.pc \in {"read_file", "scan_and_cache"} => OpsAt(t, "cache_get") = {2}
           /\ t.source = "cache" =>
                 /\ t.ops = <<"get_metadata", "cache_get">>
                 /\ t.seen.some
                 /\ t.out = Some([content |-> NoneOpt, mentions |-> t.seen.val.mentions])
                 /\ calls[i].pc = "join" => content_cache[cid] = t.seen.val

\* A call in which one task was served by the store after its stat and its
\* lookup, and another went on from a miss to read its file.
C20_Witness ==
    \E i \in CallIds : \E c1 \in DOMAIN calls[i].tasks : \E c2 \in DOMAIN calls[i].tasks :
       /\ calls[i].tasks[c1].source = "cache"
       /\ calls[i].tasks[c1].ops = <<"get_metadata", "cache_get">>
       /\ calls[i].tasks[c1].out.val.mentions # <<>>
       /\ calls[i].tasks[c2].ops = <<"get_metadata", "cache_get", "read_file", "cache_insert">>

-----------------------------------------------------------------------------
(* The scanner store, checked under Spec.                                  *)

\* C21: the scanner an analyze call uses is the scanner of the current
\* roster: its patterns and ids are those try_new builds from the ids, names
\* and aliases of the roster the call was given.  A roster that differs in a
\* name or an alias from the one the stored scanner was built from makes the
\* call rebuild the scanner.
C21_ScannerOfCurrentRoster ==
    \A i \in CallIds :
       calls[i].pc \in {"process_chapters", "join"} =>
          LET r == TryNew(calls[i].characters)
          IN  r.ok /\ calls[i].scanner = r.scanner

-----------------------------------------------------------------------------
(* Failing chapters, checked under Spec.                                   *)

\* What the steps A, B and C of a chapter task give for a chapter, from the
\* files and the mention store the call started with: "unresolved",
\* "stat_failed", "read_failed", or the mentions and the content returned.
ChapterOutcome(call, cid) ==
    LET path == resolve_chapter_path(call.project_id, call.chapters, cid)
    IN  IF ~path.ok THEN [kind |-> "unresolved"]
        ELSE LET file  == call.files_at_start[path.val]
                 stat  == get_metadata(file)
                 entry == EntryOf(call.store_at_start, cid)
             IN  IF ~stat.ok THEN [kind |-> "stat_failed"]
                 ELSE IF entry.some /\ CacheEntryValid(entry.val, stat.val, call.scanner_hash)
                 THEN [kind |-> "ok", content |-> NoneOpt, mentions |-> entry.val.mentions]
                 ELSE IF ~read_file(file).ok THEN [kind |-> "read_failed"]
                 ELSE [kind |-> "ok", content |-> Some(file.content),
                       mentions |-> IF file.content = <<>> THEN <<>>
                                    ELSE ScanWithWordIndex(call.scanner, file.content)]

\* The chapters of the call's list that pass its filter.
Requested(call) ==
    {cid \in ManifestIds(call.chapters) : ChapterPassesFilter(call.options, cid)}

\* The chapters of the call that fail at path resolution, at stat or at read.
FailingChapters(call) ==
    {cid \in Requested(call) : ChapterOutcome(call, cid).kind # "ok"}

\* The results of the call's analysis with the failing chapters removed from
\* the chapter list, one for each iteration order of the builder.
ResultsWithout(call, failing) ==
    LET kept     == Requested(call) \ failing
        mentions == [cid \in kept |-> ChapterOutcome(call, cid).mentions]
        with     == {cid \in kept : ChapterOutcome(call, cid).content.some}
        texts    == [cid \in with |-> ChapterOutcome(call, cid).content.val]
    IN  {build_character_graph_cached(call.characters, texts, mentions,
                                      call.options.proximity_window,
                                      call.options.prune_threshold, co, po) :
           co \in Orders(kept), po \in Orders(AllPairs(Len(call.characters)))}

\* Call i has returned and no later call has started: the stores are as the
\* call left them.
LastReturned(i) ==
    /\ calls[i].pc = "returned"
    /\ \A j \in CallIds : j > i => calls[j].pc = "idle"

\* C22: a chapter that fails at path resolution, at stat or at read gives no
\* mentions and no text to the call and leaves its mention-store entry as it
\* was when the call started; every other chapter task runs to completion and
\* hands over what it would without the failing chapter; and the call returns
\* a result of the same analysis with the failing chapters removed from the
\* chapter list.
C22_FailingChapterIsolated ==
    \A i \in CallIds :
       LET call    == calls[i]
           failing == FailingChapters(call)
       IN  (LastReturned(i) /\ call.characters # <<>> /\ call.scanner # NoScanner) =>
             /\ \A cid \in failing :
                  /\ cid \notin DOMAIN call.chapter_mentions
                  /\ cid \notin DOMAIN call.chapter_texts
                  /\ EntryOf(content_cache, cid) = EntryOf(call.store_at_start, cid)
             /\ \A cid \in Requested(call) \ failing :
                  /\ cid \in DOMAIN call.tasks /\ call.tasks[cid].pc = "done"
                  /\ cid \in call.joined
                  /\ call.chapter_mentions[cid] = ChapterOutcome(call, cid).mentions
             /\ call.result \in ResultsWithout(call, failing)

\* A call returned a payload that counts the mentions of one chapter while
\* its other chapter failed at the read.
C22_Witness ==
    \E i \in CallIds : \E cid \in DOMAIN calls[i].tasks :
       /\ LastReturned(i) /\ calls[i].result.ok
       /\ calls[i].tasks[cid].source = "read_failed"
       /\ ChapterOutcome(calls[i], cid).kind = "read_failed"
       /\ \E n \in Range(calls[i].result.val.nodes) : n.mention_count > 0

-----------------------------------------------------------------------------
(* The join barrier, checked under Spec.                                   *)

\* The graph builder of call i has run: the call has returned from step 4.
BuilderStarted(i) == calls[i].pc = "returned" /\ calls[i].scanner # NoScanner

\* Every task spawned by a call whose builder has run is completed and has
\* been handed over by join_next.
AllTasksJoined ==
    \A i \in CallIds :
       BuilderStarted(i) =>
          /\ DOMAIN calls[i].tasks =
               DOMAIN IdentifyTasks(calls[i].project_id, calls[i].chapters, calls[i].options)
          /\ \A cid \in DOMAIN calls[i].tasks :
               calls[i].tasks[cid].pc = "done" /\ cid \in calls[i].joined

\* Once the builder of call i has run, no step changes a task of the call or
\* what its tasks delivered, and a step that writes the mention store is the
\* step of a task of another, running call.
NoTaskAfterBuilder ==
    \A i \in CallIds :
       BuilderStarted(i) =>
          /\ calls'[i].tasks = calls[i].tasks
          /\ calls'[i].chapter_mentions = calls[i].chapter_mentions
          /\ calls'[i].chapter_texts = calls[i].chapter_texts
          /\ content_cache' # content_cache =>
               \E j \in CallIds \ {i} : \E cid \in DOMAIN calls[j].tasks :
                  /\ calls[j].pc = "join"
                  /\ calls[j].tasks[cid].pc = "scan_and_cache"
                  /\ calls'[j].tasks[cid].pc = "done"

\* C23: the graph is built only after every spawned chapter task of the call
\* has completed and has been joined, and after that no chapter task of the
\* call writes the mention store or delivers a result.
C23_JoinBarrier == []AllTasksJoined /\ [][NoTaskAfterBuilder]_vars

\* A call has returned after its two tasks, one of which wrote the mention
\* store, were joined, and a task of the next call has written the store.
C23_Witness ==
    \E i \in CallIds :
       /\ BuilderStarted(i)
       /\ DOMAIN calls[i].tasks = {"ch1", "ch2"}
       /\ \E cid \in DOMAIN calls[i].tasks : calls[i].tasks[cid].source = "scan"
       /\ i < MaxCalls /\ calls[i + 1].pc = "join"
       /\ \E cid \in DOMAIN calls[i + 1].tasks : calls[i + 1].tasks[cid].source = "scan"

-----------------------------------------------------------------------------
(* The guards of the two stores, checked under SpecLock.                   *)

\* The chapter tasks of all calls, as <<call, chapter id>>.
AllTasks == {ic \in CallIds \X ChapterIds : ic[2] \in DOMAIN calls[ic[1]].tasks}

TaskOf(ic) == calls[ic[1]].tasks[ic[2]]

\* The task is about to stat or to read its chapter file, or is in it.
InFileOperation(t) == t.pc \in {"get_metadata", "read_file"}

\* C24: a chapter task that is inside the stat or the read of its file holds
\* no guard of the mention store, and its call holds no guard of the scanner
\* store; a task holds a guard only between the lock and the end of its
\* lookup (the read guard) or of its insertion (the write guard), and a call
\* only between the lock and the end of the scanner lookup or insertion;
\* try_new and the scan run with no guard held.
C24_NoLockAcrossFileOperation ==
    /\ \A ic \in AllTasks :
          /\ InFileOperation(TaskOf(ic)) =>
               TaskOf(ic).guards = {} /\ calls[ic[1]].guards = {}
          /\ TaskOf(ic).guards =
               IF TaskOf(ic).pc = "cache_get" THEN {ContentRead}
               ELSE IF TaskOf(ic).pc = "cache_insert" THEN {ContentWrite}
               ELSE {}
    /\ \A i \in CallIds :
          calls[i].guards =
             IF calls[i].pc = "scanner_get" THEN {ScannerRead}
             ELSE IF calls[i].pc = "scanner_insert" THEN {ScannerWrite}
             ELSE {}

\* A task is in the read of its file while another task holds the write
\* guard of the mention store, and a third one has been through its lookup.
C24_Witness ==
    \E a \in AllTasks : \E b \in AllTasks : \E c \in AllTasks :
       /\ TaskOf(a).pc = "read_file" /\ TaskOf(a).ops = <<"get_metadata", "cache_get">>
       /\ ContentWrite \in TaskOf(b).guards
       /\ TaskOf(c).source = "cache"

\* At most one writer, and no reader next to a writer.
OneWriterNoReader(readers, writers) ==
    /\ Cardinality(writers) <= 1
    /\ writers # {} => readers = {}

-----------------------------------------------------------------------------
(* Metadata-based invalidation, checked under Spec.                        *)

\* The entry the task found carries the size and the modification time (in
\* whole seconds) of the file as it is now, and the signature of the call.
SameMetadata(call, t) ==
    /\ t.seen.some
    /\ t.seen.val.len = Len(files[t.path].content)
    /\ t.seen.val.modified = files[t.path].modified
    /\ t.seen.val.scanner_hash = call.scanner_hash

\* The stored mentions are not those of the file's present content.
StaleMentions(call, t) ==
    t.seen.val.mentions # ScanWithWordIndex(call.scanner, files[t.path].content)

\* C26: a chapter task whose file exists and whose stored entry has the
\* file's present size and modification time and the call's signature
\* returns the stored mention list without reading the file, whatever the
\* file's content is now: a content that changed under the same size and
\* the same second is not noticed.
C26_MetadataOnlyInvalidation ==
    \A i \in CallIds : \A cid \in DOMAIN calls[i].tasks :
       LET call == calls[i]
           t    == call.tasks[cid]
       IN  (call.pc = "join" /\ LookedUp(t) /\ SameMetadata(call, t)) =>
             /\ t.pc = "done" /\ t.source = "cache"
             /\ t.out = Some([content |-> NoneOpt, mentions |-> t.seen.val.mentions])
             /\ t.ops = <<"get_metadata", "cache_get">>

\* A chapter was rewritten with another text of the same length within the
\* same second, the roster is the same, and the task of the next call has
\* returned the mentions of the old text.
C26_Witness ==
    \E i \in CallIds : \E cid \in DOMAIN calls[i].tasks :
       LET call == calls[i]
           t    == call.tasks[cid]
       IN  /\ call.pc = "join" /\ t.pc = "done" /\ t.source = "cache"
           /\ SameMetadata(call, t)
           /\ call.scanner = TryNew(call.characters).scanner
           /\ StaleMentions(call, t)
           /\ t.out.val.mentions = t.seen.val.mentions

-----------------------------------------------------------------------------
(* The sliding window, checked under SpecNum.                              *)

WindowDone == numRun.pc = "window_done"

\* The positions of the chapter's mentions, ordered by word index and, in a
\* word, by place in the list.
RECURSIVE ByWordIndex(_, _)
ByWordIndex(ms, left) ==
    IF left = {} THEN <<>>
    ELSE LET k == CHOOSE a \in left :
                    \A b \in left :
                       \/ ms[a].word_idx < ms[b].word_idx
                       \/ ms[a].word_idx = ms[b].word_idx /\ a <= b
         IN  <<k>> \o ByWordIndex(ms, left \ {k})

\* The unordered pairs of mentions of the two characters of key, as pairs of
\* places in the order by word index, first place first.
RECURSIVE PairsOf(_, _, _, _)
PairsOf(ms, order, key, at) ==
    IF at > Len(order) * Len(order) THEN <<>>
    ELSE LET i == ((at - 1) \div Len(order)) + 1
             j == ((at - 1) % Len(order)) + 1
             a == ms[order[i]]
             b == ms[order[j]]
         IN  (IF i < j /\ {a.idx, b.idx} = {key[1], key[2]} THEN <<(<<a, b>>)>> ELSE <<>>)
             \o PairsOf(ms, order, key, at + 1)

\* The sum of the proximity bonus over a list of pairs of mentions.
RECURSIVE SumBonus(_, _, _)
SumBonus(pairs, proximity_window, acc) ==
    IF pairs = <<>> THEN acc
    ELSE LET a == Head(pairs)[1].word_idx
             b == Head(pairs)[2].word_idx
             d == IF a < b THEN b - a ELSE a - b
         IN  SumBonus(Tail(pairs), proximity_window,
                      F32Add(acc, proximity_bonus(d, proximity_window,
                                                  GraphWeightsDefault.base_proximity_bonus)))

\* The weight all pairs of mentions give the characters of key.
AllPairsWeight(ms, key, proximity_window) ==
    SumBonus(PairsOf(ms, ByWordIndex(ms, DOMAIN ms), key, 1), proximity_window, F32Zero)

\* C27: for every list of mentions of a chapter and every window, the weight
\* the forward scan with its early stop accumulates for a pair of characters
\* is the sum of the proximity bonus over all unordered pairs of mentions of
\* the two characters (taken in word order, as the scan takes them); a pair
\* of characters has a positive weight exactly when two of their mentions
\* are 1 to proximity_window words apart.
C27_SlidingWindowIsAllPairs ==
    WindowDone =>
       \A key \in AllPairs(3) :
          LET ms == numRun.linear_mentions
              w  == numRun.proximity_window
              weight == MapGetOr(numRun.weight_matrix, key, F32Zero)
          IN  /\ weight = AllPairsWeight(ms, key, w)
              /\ F32Lt(F32Zero, weight) <=>
                   \E a \in DOMAIN ms : \E b \in DOMAIN ms :
                      /\ ms[a].idx = key[1] /\ ms[b].idx = key[2]
                      /\ ms[a].word_idx # ms[b].word_idx
                      /\ ms[a].word_idx - ms[b].word_idx \in (0 - w)..w

\* Four mentions given out of word order, of which the scan adds two pairs
\* to one weight and leaves out a pair its early stop never reaches.
C27_Witness ==
    /\ WindowDone
    /\ Len(numRun.linear_mentions) = 4
    /\ numRun.proximity_window = 2
    /\ \E k \in 1..3 : numRun.linear_mentions[k].word_idx > numRun.linear_mentions[k + 1].word_idx
    /\ \E key \in DOMAIN numRun.weight_matrix :
          /\ Len(PairsOf(numRun.linear_mentions,
                         ByWordIndex(numRun.linear_mentions, 1..4), key, 1)) = 3
          /\ numRun.weight_matrix[key] =
               F32Add(proximity_bonus(1, 2, GraphWeightsDefault.base_proximity_bonus),
                      proximity_bonus(2, 2, GraphWeightsDefault.base_proximity_bonus))

-----------------------------------------------------------------------------
(* The word indexer, checked under SpecNum.                                *)

IndexDone == numRun.pc = "index_done"

\* The offsets at which a word of the text starts: a character that is not
\* whitespace, at offset 0 or after a whitespace character.
WordStartOffsets(text) ==
    {o \in 0..(Len(text) - 1) :
       /\ ~IsWhitespace(text[o + 1])
       /\ o = 0 \/ IsWhitespace(text[o])}

\* C28: get_word_index(offset) is max(0, (number of word starts <= offset)
\* - 1): the 0-based index of the word that contains the offset, or of the
\* word before it when the offset is in whitespace; it does not decrease as
\* the offset grows; and it is 0 for a text without words and for an offset
\* before the first word.
C28_WordIndex ==
    IndexDone =>
       LET text   == numRun.text
           starts == WordStartOffsets(text)
       IN  /\ Range(numRun.word_starts) = starts
           /\ \A o \in 0..Len(text) :
                 LET upto == Cardinality({x \in starts : x <= o})
                 IN  /\ numRun.word_indices[o + 1] = IF upto = 0 THEN 0 ELSE upto - 1
                     /\ o > 0 => numRun.word_indices[o] <= numRun.word_indices[o + 1]
                     /\ (starts = {} \/ \A x \in starts : o < x) =>
                           numRun.word_indices[o + 1] = 0

\* "a a  " : offset 0 is in word 0, offsets 2 and 3 in or after word 1, and
\* the trailing whitespace belongs to word 1.
C28_Witness ==
    /\ IndexDone
    /\ numRun.text = <<"a", " ", "a", " ", " ">>
    /\ numRun.word_indices = <<0, 0, 1, 1, 1, 1>>

-----------------------------------------------------------------------------
(* Tag and machine-reference forms and letter case, checked under SpecScan. *)

\* form stands in text at 0-based offset s, byte for byte.
Occurs(text, form, s) ==
    /\ s + Len(form) <= Len(text)
    /\ SubSeq(text, s + 1, s + Len(form)) = form

MentionsAt(s) == {k \in DOMAIN scanRun.mentions : scanRun.mentions[k].offset = s}

\* C29: every occurrence of "@name" in the text gives exactly one mention at
\* the offset of the "@", whatever follows the name, and none at the offset
\* of the name inside it; every occurrence of data-id="<id>" or
\* data-id='<id>' gives a mention of that character at its offset, whatever
\* stands before and after it.
C29_TagAndMachineForms ==
    Scanned =>
       \A i \in DOMAIN scanRun.characters :
          \A s \in 0..Len(scanRun.text) :
             LET c == scanRun.characters[i]
             IN  /\ Occurs(scanRun.text, <<"@">> \o c.name, s) =>
                       /\ Cardinality(MentionsAt(s)) = 1
                       /\ MentionsAt(s + 1) = {}
                 /\ (\/ Occurs(scanRun.text, DataIdPrefix \o <<"\"">> \o IdStr(c.id) \o <<"\"">>, s)
                     \/ Occurs(scanRun.text, DataIdPrefix \o <<"'">> \o IdStr(c.id) \o <<"'">>, s)) =>
                       \E k \in MentionsAt(s) : scanRun.mentions[k].id = c.id

\* Two characters are the same letter in the same or in the other case.
SameLetter(a, b) ==
    \/ a = b
    \/ \E n \in DOMAIN UpperLetters :
          {a, b} = {UpperLetters[n], LowerLetters[n]}
    \/ {a, b} = {AccentUpper, AccentLower}

\* The text has, at offset s, the name in some mix of letter cases.
OccursInSomeCase(text, name, s) ==
    /\ s + Len(name) <= Len(text)
    /\ \A n \in DOMAIN name : SameLetter(text[s + n], name[n])

\* The name and the aliases of a character that give a pattern.
NamesOf(c) == {c.name} \cup {c.aliases[n] : n \in {x \in DOMAIN c.aliases : Trim(c.aliases[x]) # <<>>}}

\* C30: every occurrence of a name or alias of a character, in any mix of
\* letter cases, with no alphanumeric character and no underscore right
\* before or right after it, lies in a match reported as a mention of that
\* character.
C30_CaseInsensitive ==
    Scanned =>
       \A i \in DOMAIN scanRun.characters :
          \A name \in NamesOf(scanRun.characters[i]) :
             \A s \in 0..Len(scanRun.text) :
                (/\ OccursInSomeCase(scanRun.text, name, s)
                 /\ is_word_boundary(scanRun.text, s, s + Len(name)))
                   => \E k \in DOMAIN scanRun.matches :
                         /\ scanRun.matches[k].start <= s
                         /\ s < scanRun.matches[k].end
                         /\ scanRun.mentions[k].id = scanRun.characters[i].id

-----------------------------------------------------------------------------
(* The interaction kind of an edge, checked under SpecGraph.               *)

\* C31: every returned edge joins two characters that are both mentioned in
\* at least one same analyzed chapter, and its kind is CoPresence; no
\* returned edge has kind Reference.
C31_InteractionKind ==
    Built =>
       \A k \in DOMAIN graphRun.result.val.edges :
          LET e == graphRun.result.val.edges[k]
          IN  /\ SharedChapters(graphRun.chapter_mentions, e.source, e.target) # {}
              /\ e.interaction_type = "CoPresence"
              /\ e.interaction_type # "Reference"

\* Two chapters analyzed, an edge returned, and a pair of characters that
\* share a chapter and have no edge.
C31_Witness ==
    /\ Built
    /\ Cardinality(DOMAIN graphRun.chapter_mentions) = 2
    /\ graphRun.result.val.edges # <<>>
    /\ \E i \in DOMAIN graphRun.characters : \E j \in DOMAIN graphRun.characters :
          /\ i < j
          /\ SharedChapters(graphRun.chapter_mentions, graphRun.characters[i].id,
                            graphRun.characters[j].id) # {}
          /\ EdgesBetween(graphRun.result.val.edges, graphRun.characters[i].id,
                          graphRun.characters[j].id) = {}

-----------------------------------------------------------------------------
(* The builder's consistency check, checked under Spec.                    *)

\* The call handed its two maps to the builder: the roster was not empty,
\* the scanner was obtained and every task was joined.
BuilderCalled(i) ==
    /\ Returned(i)
    /\ ~RosterIsEmpty(calls[i].characters)
    /\ calls[i].scanner # NoScanner
    /\ JoinSetEmpty(calls[i])

\* The chapters that are keys of the mention map and not of the text map.
WithoutText(call) == DOMAIN call.chapter_mentions \ DOMAIN call.chapter_texts

\* C32: whenever some chapter id is a key of the mention map and not of the
\* text map, whatever mention list is stored under it, the builder returns
\* the error "Content missing for analyzed chapter" for such a chapter and
\* no payload.
C32_ContentMissingIsHardError ==
    \A i \in CallIds :
       (BuilderCalled(i) /\ WithoutText(calls[i]) # {}) =>
          /\ ~calls[i].result.ok
          /\ \E cid \in WithoutText(calls[i]) :
                calls[i].result.err =
                   <<"Intelligence", <<"Content missing for analyzed chapter", cid>>>>

-----------------------------------------------------------------------------
(* The scanner store under overlapping calls, checked under SpecRace.      *)

\* The call has left get_or_create_scanner with a scanner and a signature.
HasScannerPair(i) ==
    calls[i].pc \in {"process_chapters", "join"}
    \/ (Returned(i) /\ calls[i].scanner # NoScanner)

\* C33: in every state each entry of the scanner store pairs a signature
\* with the scanner built from a roster of the project that has this
\* signature, and each call that has left get_or_create_scanner holds the
\* scanner built from its own roster together with that roster's signature,
\* whichever call wrote the store last.
C33_ScannerStoreConsistent ==
    /\ \A p \in DOMAIN scanner_cache :
          \E r \in {RosterAliceBob} \cup LockRosters :
             /\ RosterSignature(r) = scanner_cache[p].hash
             /\ TryNew(r).scanner = scanner_cache[p].scanner
    /\ \A i \in CallIds :
          HasScannerPair(i) =>
             /\ calls[i].scanner_hash = RosterSignature(calls[i].characters)
             /\ calls[i].scanner = TryNew(calls[i].characters).scanner

-----------------------------------------------------------------------------
(* Entries of the mention store and file versions, checked under SpecRace. *)

\* The task scanned the content it read and inserted the entry.
Inserted(t) == t.pc = "done" /\ t.source = "scan"

\* C34: in every state, for every task that inserted an entry, the content
\* the mention list was computed from has the byte length the entry stores
\* and is the content of the file version that had the modification time
\* the entry stores: the stat and the read of the task describe the same
\* version of the file, also when the file is rewritten while it is being
\* analyzed.
C34_EntryOfOneFileVersion ==
    \A ic \in AllTasks :
       LET t == TaskOf(ic)
       IN  Inserted(t) =>
              /\ Len(t.content) = t.file_meta.len
              /\ t.read_meta = t.file_meta

-----------------------------------------------------------------------------
(* Completeness of a scan, checked under SpecScan.                         *)

\* The matches the scan reported that share a byte with start..end.
ReportedOver(start, end) ==
    {k \in DOMAIN scanRun.matches :
       scanRun.matches[k].start < end /\ start < scanRun.matches[k].end}

\* C35: every occurrence of a name or alias of a character with no
\* alphanumeric character and no underscore right before and right after it
\* is reported as a mention of that character at its offset, unless it
\* overlaps a mention that is reported; in particular an occurrence that
\* overlaps only a match rejected by the boundary test is reported.
C35_ScanComplete ==
    Scanned =>
       \A i \in DOMAIN scanRun.characters :
          \A name \in NamesOf(scanRun.characters[i]) :
             \A s \in 0..Len(scanRun.text) :
                (/\ OccursInSomeCase(scanRun.text, name, s)
                 /\ is_word_boundary(scanRun.text, s, s + Len(name))
                 /\ ReportedOver(s, s + Len(name)) = {})
                   => \E k \in MentionsAt(s) :
                         scanRun.mentions[k].id = scanRun.characters[i].id

-----------------------------------------------------------------------------
(* Termination of the calls, checked under SpecLockFair.                   *)

\* While a call is running, a call or a chapter task can make a step.
NoLockDeadlock ==
    (\E i \in CallIds : InFlight(i)) =>
       \E i \in CallIds : SyncReady(i) \/ ENABLED AwaitingStep(i)

\* C36: a call that has been made returns, however the steps of overlapping
\* calls and of their tasks interleave, with all its chapter tasks finished
\* and handed over or with an error; and in no state are all running calls
\* and tasks waiting for a guard of a store.
C36_Termination ==
    /\ []NoLockDeadlock
    /\ \A i \in CallIds :
          (calls[i].pc # "idle") ~>
             /\ Returned(i)
             /\ \/ ~calls[i].result.ok
                \/ \A cid \in DOMAIN calls[i].tasks :
                      calls[i].tasks[cid].pc = "done" /\ cid \in calls[i].joined

\* A task awaits the write guard of the mention store while a task of the
\* other call holds a read guard of it.
C36_Witness ==
    \E a \in AllTasks : \E b \in AllTasks :
       /\ a[1] # b[1]
       /\ TaskOf(a).pc = "cache_write"
       /\ ContentRead \in TaskOf(b).guards
       /\ ~ENABLED TaskWriteLock(a[1], a[2])

-----------------------------------------------------------------------------
(* The shape of the returned edges, checked under SpecGraph.               *)

\* Positions of the roster that carry the id.
PositionsOf(characters, id) == {i \in DOMAIN characters : characters[i].id = id}

\* C37: in a returned payload no edge joins a character to itself, both
\* endpoints of an edge are ids of roster characters with the source at an
\* earlier position of the roster than the target, and no two edges join
\* the same unordered pair.
C37_EdgesWellFormed ==
    Built =>
       LET edges      == graphRun.result.val.edges
           characters == graphRun.characters
       IN  /\ \A k \in DOMAIN edges :
                 /\ edges[k].source # edges[k].target
                 /\ PositionsOf(characters, edges[k].source) # {}
                 /\ PositionsOf(characters, edges[k].target) # {}
                 /\ \E i \in PositionsOf(characters, edges[k].source) :
                    \E j \in PositionsOf(characters, edges[k].target) : i < j
           /\ \A k \in DOMAIN edges : \A l \in DOMAIN edges :
                 k # l => {edges[k].source, edges[k].target}
                             # {edges[l].source, edges[l].target}

\* Three edges are returned, and in some chapter the target of an edge is
\* mentioned before its source.
C37_Witness ==
    /\ Built
    /\ Len(graphRun.result.val.edges) = 3
    /\ \E k \in DOMAIN graphRun.result.val.edges :
       \E cid \in DOMAIN graphRun.chapter_mentions :
          LET e  == graphRun.result.val.edges[k]
              ms == graphRun.chapter_mentions[cid]
          IN  \E a \in DOMAIN ms : \E b \in DOMAIN ms :
                 /\ ms[a].id = e.target
                 /\ ms[b].id = e.source
                 /\ a < b

-----------------------------------------------------------------------------
(* The first mention of a node, checked under SpecGraph.                   *)

\* The offsets at which a chapter's mention list has the character.
OffsetsOf(mentions, id) == {mentions[k].offset : k \in {j \in DOMAIN mentions : mentions[j].id = id}}

\* C38: a node of a returned payload has a first_mention exactly when it is
\* mapped; the first_mention names an analyzed chapter whose mention list has
\* the character, and its offset is the smallest offset of the character's
\* mentions in that chapter.
C38_FirstMention ==
    Built =>
       \A i \in DOMAIN graphRun.result.val.nodes :
          LET node == graphRun.result.val.nodes[i]
              id   == graphRun.characters[i].id
          IN  /\ node.first_mention.some <=> node.is_mapped
              /\ node.first_mention.some =>
                    LET loc == node.first_mention.val
                    IN  /\ loc.chapter_id \in DOMAIN graphRun.chapter_mentions
                        /\ LET offsets == OffsetsOf(graphRun.chapter_mentions[loc.chapter_id], id)
                           IN  /\ loc.char_offset \in offsets
                               /\ \A o \in offsets : loc.char_offset <= o

\* A character is mentioned twice in the chapter of its first mention and
\* once more in another chapter, next to a character with no mention.
C38_Witness ==
    /\ Built
    /\ \E i \in DOMAIN graphRun.result.val.nodes : ~graphRun.result.val.nodes[i].is_mapped
    /\ \E i \in DOMAIN graphRun.result.val.nodes :
          LET node == graphRun.result.val.nodes[i]
              id   == graphRun.characters[i].id
          IN  /\ node.first_mention.some
              /\ Cardinality(OffsetsOf(graphRun.chapter_mentions[node.first_mention.val.chapter_id], id)) >= 2
              /\ \E cid \in DOMAIN graphRun.chapter_mentions :
                    /\ cid # node.first_mention.val.chapter_id
                    /\ OffsetsOf(graphRun.chapter_mentions[cid], id) # {}

-----------------------------------------------------------------------------
(* Isolation of the mention store between projects, checked under SpecTwo. *)

\* The task of call i for chapter cid was served from the mention store.
ServedFromStore(i, cid) ==
    /\ cid \in DOMAIN calls[i].tasks
    /\ calls[i].tasks[cid].source = "cache"

\* Call j scanned chapter cid and cached the list mentions.
CachedBy(j, cid, mentions) ==
    /\ cid \in DOMAIN calls[j].tasks
    /\ calls[j].tasks[cid].source = "scan"
    /\ calls[j].tasks[cid].out.val.mentions = mentions

\* C39: a mention list that the store returns to a call on a project was
\* cached by a call on that same project, never by a call on another project
\* whose chapter has the same id.
C39_StoreIsolation ==
    \A i \in CallIds : \A cid \in ChapterIds :
       ServedFromStore(i, cid) =>
          \E j \in CallIds :
             /\ calls[j].project_id = calls[i].project_id
             /\ CachedBy(j, cid, calls[i].tasks[cid].out.val.mentions)

-----------------------------------------------------------------------------
(* The failure of the scanner build, checked under SpecBuild.              *)

NoCharacters == Err(<<"Intelligence", "No characters to analyze">>)

\* try_new fails on the empty roster and on no other, and a call that is
\* over has the error exactly when its roster is empty.
FailsOnEmptyRosterOnly ==
    \A i \in CallIds :
       ScannerCallOver(i) =>
          /\ TryNew(calls[i].characters).ok <=> calls[i].characters # <<>>
          /\ ~TryNew(calls[i].characters).ok =>
                TryNew(calls[i].characters).err = "No characters to analyze"
          /\ (calls[i].pc = "returned" /\ calls[i].result = NoCharacters)
                <=> calls[i].characters = <<>>

\* The step at which the build fails returns the error and writes no store.
FailureLeavesStores ==
    \A i \in CallIds :
       (calls[i].pc = "rebuild_scanner" /\ calls'[i].pc = "returned") =>
          /\ ~calls'[i].result.ok
          /\ calls'[i].result.err[1] = "Intelligence"
          /\ scanner_cache' = scanner_cache
          /\ content_cache' = content_cache

=============================================================================
